---- MODULE Spec2Model ----
(***************************************************************************)
(* A model of the my_rail_commute integration:                             *)
(*   - NationalRailAPI._request (api.py): the retrying HTTP request,       *)
(*     with the asyncio.timeout context of every recursion level;          *)
(*   - NationalRailDataUpdateCoordinator._async_update_data                *)
(*     (coordinator.py): one refresh cycle and its failure path;           *)
(*   - TrainSensor._handle_coordinator_update (sensor.py): the per-slot    *)
(*     platform-change tracker.                                            *)
(*   - NationalRailDataUpdateCoordinator.__init__ and _parse_data          *)
(*     (coordinator.py): the validated delay thresholds and the snapshot   *)
(*     built from a parsed departure board (_parse_service of api.py,      *)
(*     _filter_departed_trains, _calculate_overall_status,                 *)
(*     _collect_delay_info);                                               *)
(*   - NationalRailAPI._parse_departure_board and _parse_service (api.py): *)
(*     the parsed services of a raw response;                              *)
(*   - NationalRailAPI.validate_station (api.py): the station check on     *)
(*     top of _request;                                                    *)
(*   - NationalRailAPI.validate_api_key and get_departure_board (api.py):  *)
(*     what the two callers make of the outcome of _request.               *)
(* Each part has its own specification over the shared variables.          *)
(***************************************************************************)
EXTENDS Integers, Sequences, FiniteSets, TLC

VARIABLES
    \* ---- NationalRailAPI._request -------------------------------------
    rq_pc,          \* "idle" | "attempt" | "sleep" | "done": position of the call
    retry_count,    \* retry_count of the innermost (running) _request frame
    rq_ctx,         \* TRUE iff the running code is inside an asyncio.timeout block
    rq_base,        \* retry_count of the outermost frame whose timeout block is open
    rq_elapsed,     \* seconds since that outermost timeout block was entered
    wait_time,      \* argument of the asyncio.sleep in progress
    attempts,       \* network attempts (session.get calls) made by this call
    sleeps,         \* the wait_time of every asyncio.sleep called, in order
    rq_seen,        \* the outcomes of the attempts made by this call
    rq_last,        \* outcome of the latest attempt and the frame it ran in
    rq_cut,         \* TRUE iff a sleep or a nested attempt was ended by an outer timeout
    rq_result,      \* "none" | "body" | the exception the call raised
    \* ---- NationalRailDataUpdateCoordinator ----------------------------
    co_now,                 \* dt_util.now(), in minutes since midnight of day 0
    co_start,               \* the time the coordinator was constructed
    night_updates_enabled,  \* self.night_updates_enabled
    update_interval,        \* self.update_interval, in minutes
    failed_updates,         \* self._failed_updates
    data,                   \* self.data: the current snapshot, NoData for None
    co_last,                \* the latest refresh cycle: what it got and what it gave
    co_consec,              \* failed refreshes since the last successful fetch
    co_ever_ok,             \* TRUE iff some refresh fetched a board
    \* ---- TrainSensor (one train slot) ----------------------------------
    train_number,           \* self._train_number
    previous_platform,      \* self._previous_platform ("None" for None)
    platform_changed,       \* self._platform_changed
    current_service_id,     \* self._current_service_id ("None" for None)
    tk_obs,                 \* what the latest snapshot held at the slot
    tk_hist,                \* the run of the service now in the slot: its id, the
                            \* platform of its first snapshot, the platforms seen
    tk_has_data,            \* TRUE iff coordinator.data holds a snapshot
    tk_prev,                \* what the snapshot before the latest one left:
                            \* the kind of occupant of the slot and the flag
    \* ---- coordinator configuration and snapshot builder ---------------
    config,                 \* the config dict given to __init__
    thresholds,             \* self.severe/major/minor_delay_threshold
    num_services,           \* self.num_services
    sn_board,               \* data["services"]: the raw board's parsed services
    sn_now,                 \* dt_util.now() of the refresh, minutes since midnight
    snapshot,               \* what _parse_data returned
    \* ---- NationalRailAPI._parse_departure_board ------------------------
    pa_raw,                 \* the raw service entries of the response
    pa_board,               \* the parsed services returned for them
    pa_again,               \* the parse of the returned records read as raw entries
    \* ---- NationalRailAPI.validate_station ------------------------------
    vs_code,                \* crs_code
    vs_result,              \* what the call returned or raised
    \* ---- NationalRailAPI.validate_api_key, get_departure_board --------
    ca_method,              \* the method called
    ca_result,              \* what the call returned or raised
    \* ---- TrainSensor 1 and NextTrainSensor side by side ----------------
    mi_has_data,            \* TRUE iff coordinator.data holds a snapshot
    mi_services,            \* coordinator.data["services"]
    mi_train,               \* the tracker fields of TrainSensor number 1
    mi_next                 \* the tracker fields of NextTrainSensor

rq_vars == <<rq_pc, retry_count, rq_ctx, rq_base, rq_elapsed, wait_time,
             attempts, sleeps, rq_seen, rq_last, rq_cut, rq_result>>

co_vars == <<co_now, co_start, night_updates_enabled, update_interval,
             failed_updates, data, co_last, co_consec, co_ever_ok>>

tk_vars == <<train_number, previous_platform, platform_changed,
             current_service_id, tk_obs, tk_hist, tk_has_data, tk_prev>>

sn_vars == <<config, thresholds, num_services, sn_board, sn_now, snapshot>>

pa_vars == <<pa_raw, pa_board, pa_again>>

vs_vars == <<vs_code, vs_result>>

ca_vars == <<ca_method, ca_result>>

mi_vars == <<mi_has_data, mi_services, mi_train, mi_next>>

vars == <<rq_vars, co_vars, tk_vars, sn_vars, pa_vars, vs_vars, ca_vars, mi_vars>>

\* what the steps of each part leave alone
NotRequest == <<co_vars, tk_vars, sn_vars, pa_vars, vs_vars, ca_vars, mi_vars>>
NotCoord == <<rq_vars, tk_vars, sn_vars, pa_vars, vs_vars, ca_vars, mi_vars>>
NotTracker == <<rq_vars, co_vars, sn_vars, pa_vars, vs_vars, ca_vars, mi_vars>>
NotSnapshot == <<rq_vars, co_vars, tk_vars, pa_vars, vs_vars, ca_vars, mi_vars>>
NotParser == <<rq_vars, co_vars, tk_vars, sn_vars, vs_vars, ca_vars, mi_vars>>
NotValidate == <<co_vars, tk_vars, sn_vars, pa_vars, ca_vars, mi_vars>>
NotCaller == <<co_vars, tk_vars, sn_vars, pa_vars, vs_vars, mi_vars>>
NotMirror == <<rq_vars, co_vars, tk_vars, sn_vars, pa_vars, vs_vars, ca_vars>>

--------------------------------------------------------------------------
(* Program constants *)

\* const.py: API_TIMEOUT, the seconds of every asyncio.timeout block
API_TIMEOUT == 30

\* api.py: default of the max_retries parameter; no caller passes another
max_retries == 3

\* HTTP statuses drawn for a response: one of every class _request tells apart
Statuses == {200, 400, 401, 403, 404, 429, 500, 503}

\* exceptions session.get itself can raise in the running frame
TransportErrors == {"ClientError", "TimeoutError"}

\* Granularity, in seconds, of the response times drawn for an attempt
DurationStep == 7

\* seconds a response (or a transport error) can take to arrive; a response
\* that takes API_TIMEOUT or longer is the deadline case
Durations == {d \in 0 .. (API_TIMEOUT - 1) : d % DurationStep = 0}

NoOutcome == [via |-> "none", status |-> 0]

--------------------------------------------------------------------------
(* NationalRailAPI._request                                                *)
(*                                                                         *)
(* _request retries by calling itself.  For a 429 or a status >= 500 the   *)
(* sleep and the recursive call stand inside the frame's                   *)
(* `async with asyncio.timeout(API_TIMEOUT)` block, so that block stays    *)
(* open around the retry; for asyncio.TimeoutError and ClientError they    *)
(* stand in the except clause, after the block was left.  All blocks last  *)
(* API_TIMEOUT seconds, so of the open blocks the outermost one expires    *)
(* first: the model keeps that frame (rq_base) and the seconds since it    *)
(* entered its block (rq_elapsed).  Time is counted in whole seconds.      *)

\* StatusAction with 403 sent down the retry branch of 429.
StatusAction_Retry403(status, rc) ==
    IF status = 401 THEN "AuthenticationError"
    ELSE IF status = 429 \/ status = 403 THEN
        IF rc < max_retries THEN "retry" ELSE "RateLimitError"
    ELSE IF status = 404 THEN "InvalidStationError"
    ELSE IF status >= 500 THEN
        IF rc < max_retries THEN "retry" ELSE "NationalRailAPIError"
    ELSE IF status >= 400 THEN "NationalRailAPIError"
    ELSE "body"

\* StatusAction whose 429 branch retries whatever the retry_count.
StatusAction_Retry429Always(status, rc) ==
    IF status = 401 \/ status = 403 THEN "AuthenticationError"
    ELSE IF status = 429 THEN "retry"
    ELSE IF status = 404 THEN "InvalidStationError"
    ELSE IF status >= 500 THEN
        IF rc < max_retries THEN "retry" ELSE "NationalRailAPIError"
    ELSE IF status >= 400 THEN "NationalRailAPIError"
    ELSE "body"

\* What the status branch of _request does with a response, in code order.
StatusAction(status, rc) ==
    IF status = 401 \/ status = 403 THEN "AuthenticationError"
    ELSE IF status = 429 THEN
        IF rc < max_retries THEN "retry" ELSE "RateLimitError"
    ELSE IF status = 404 THEN "InvalidStationError"
    ELSE IF status >= 500 THEN
        IF rc < max_retries THEN "retry" ELSE "NationalRailAPIError"
    ELSE IF status >= 400 THEN "NationalRailAPIError"  \* raise_for_status -> ClientResponseError
    ELSE "body"

\* wait_time = 2 ** retry_count
Backoff(rc) == 2 ^ rc

\* The call ends: a return value or an exception leaves every frame.
\* (None of the exceptions raised is caught by an outer frame's handlers.)
Finish(res) ==
    /\ rq_pc' = "done"
    /\ rq_result' = res
    /\ rq_ctx' = FALSE
    /\ UNCHANGED <<retry_count, rq_base, rq_elapsed, wait_time, sleeps>>

\* Frame rc starts `await asyncio.sleep(2 ** rc)` before its recursive call.
\* inCtx: the sleep runs inside an open timeout block started `el` seconds ago.
StartSleep(rc, inCtx, el) ==
    /\ rq_pc' = "sleep"
    /\ retry_count' = rc
    /\ wait_time' = Backoff(rc)
    /\ sleeps' = Append(sleeps, Backoff(rc))
    /\ rq_ctx' = inCtx
    /\ rq_elapsed' = el
    /\ rq_result' = "none"
    /\ UNCHANGED rq_base

\* The except clauses for asyncio.TimeoutError and ClientError in frame rc:
\* they run after frame rc's own timeout block was left.
\* stillIn: an outer frame's timeout block is still open around frame rc.
ExceptRetry(rc, stillIn, el) ==
    IF rc < max_retries
    THEN StartSleep(rc, stillIn, el)
    ELSE Finish("NationalRailAPIError")

\* _request(endpoint, params) called with retry_count = 0.
CallRequest ==
    /\ rq_pc \in {"idle", "done"}
    /\ rq_pc' = "attempt"
    /\ retry_count' = 0
    /\ rq_ctx' = TRUE
    /\ rq_base' = 0
    /\ rq_elapsed' = 0
    /\ wait_time' = 0
    /\ attempts' = 0
    /\ sleeps' = <<>>
    /\ rq_seen' = {}
    /\ rq_last' = [out |-> NoOutcome, rc |-> 0]
    /\ rq_cut' = FALSE
    /\ rq_result' = "none"
    /\ UNCHANGED NotRequest

\* The attempt of the running frame gets a response after d seconds, before
\* the deadline of the outermost open timeout block.
AttemptResponse(status, d) ==
    /\ rq_pc = "attempt"
    /\ rq_elapsed + d < API_TIMEOUT
    /\ attempts' = attempts + 1
    /\ LET out == [via |-> "response", status |-> status]
           act == StatusAction(status, retry_count)
       IN /\ rq_last' = [out |-> out, rc |-> retry_count]
          /\ rq_seen' = rq_seen \cup {out}
          /\ IF act = "retry"
             THEN StartSleep(retry_count, TRUE, rq_elapsed + d)
             ELSE Finish(act)
    /\ UNCHANGED rq_cut
    /\ UNCHANGED NotRequest

\* session.get raises in the running frame after d seconds: the frame's own
\* except clause handles it, outside its own timeout block but inside the
\* blocks of the frames that are awaiting it from within theirs.
AttemptTransportError(kind, d) ==
    /\ rq_pc = "attempt"
    /\ rq_elapsed + d < API_TIMEOUT
    /\ attempts' = attempts + 1
    /\ LET out == [via |-> kind, status |-> 0]
       IN /\ rq_last' = [out |-> out, rc |-> retry_count]
          /\ rq_seen' = rq_seen \cup {out}
          /\ ExceptRetry(retry_count, rq_base < retry_count, rq_elapsed + d)
    /\ UNCHANGED rq_cut
    /\ UNCHANGED NotRequest

\* No response before the deadline of the outermost open timeout block: its
\* task.cancel() unwinds every nested frame (CancelledError is caught by
\* none of them) and frame rq_base gets asyncio.TimeoutError.
AttemptDeadline ==
    /\ rq_pc = "attempt"
    /\ attempts' = attempts + 1
    /\ LET out == [via |-> "deadline", status |-> 0]
       IN /\ rq_last' = [out |-> out, rc |-> retry_count]
          /\ rq_seen' = rq_seen \cup {out}
    /\ rq_cut' = (rq_cut \/ rq_base < retry_count)
    /\ ExceptRetry(rq_base, FALSE, 0)
    /\ UNCHANGED NotRequest

\* The sleep ends and the frame calls _request(retry_count + 1): a new frame
\* enters its own timeout block; an enclosing block stays the outermost.
SleepDone ==
    /\ rq_pc = "sleep"
    /\ ~(rq_ctx /\ rq_elapsed + wait_time >= API_TIMEOUT)
    /\ rq_pc' = "attempt"
    /\ retry_count' = retry_count + 1
    /\ rq_base' = IF rq_ctx THEN rq_base ELSE retry_count + 1
    /\ rq_elapsed' = IF rq_ctx THEN rq_elapsed + wait_time ELSE 0
    /\ rq_ctx' = TRUE
    /\ UNCHANGED <<wait_time, attempts, sleeps, rq_seen, rq_last, rq_cut, rq_result>>
    /\ UNCHANGED NotRequest

\* The deadline of the outermost open timeout block falls inside the sleep:
\* the sleep is cancelled and frame rq_base gets asyncio.TimeoutError.
SleepDeadline ==
    /\ rq_pc = "sleep"
    /\ rq_ctx /\ rq_elapsed + wait_time >= API_TIMEOUT
    /\ rq_cut' = TRUE
    /\ ExceptRetry(rq_base, FALSE, 0)
    /\ UNCHANGED <<attempts, rq_seen, rq_last>>
    /\ UNCHANGED NotRequest

RequestInit ==
    /\ rq_pc = "idle"
    /\ retry_count = 0
    /\ rq_ctx = FALSE
    /\ rq_base = 0
    /\ rq_elapsed = 0
    /\ wait_time = 0
    /\ attempts = 0
    /\ sleeps = <<>>
    /\ rq_seen = {}
    /\ rq_last = [out |-> NoOutcome, rc |-> 0]
    /\ rq_cut = FALSE
    /\ rq_result = "none"

RequestNext ==
    \/ CallRequest
    \/ \E status \in Statuses, d \in Durations : AttemptResponse(status, d)
    \/ \E kind \in TransportErrors, d \in Durations : AttemptTransportError(kind, d)
    \/ AttemptDeadline
    \/ SleepDone
    \/ SleepDeadline

--------------------------------------------------------------------------
(* Properties of _request *)

Got429 == [via |-> "response", status |-> 429]

\* the step is a network attempt of the running frame
IsAttemptStep == rq_pc = "attempt" /\ attempts' = attempts + 1

\* the outcomes the retry policy treats as transient, other than 429
IsTransientFailure(out) ==
    \/ out.via = "response" /\ out.status >= 500
    \/ out.via \in {"ClientError", "TimeoutError", "deadline"}

\* C1: a call whose every attempt answered 429 ends with RateLimitError after
\* exactly 4 network attempts, having slept exactly 1, 2 and 4 seconds.
C1_RateLimitCeiling ==
    (rq_pc = "done" /\ rq_seen = {Got429})
        => /\ rq_result = "RateLimitError"
           /\ attempts = max_retries + 1
           /\ sleeps = <<1, 2, 4>>

\* C2: whatever the outcomes of the attempts, one call makes at most 4
\* network attempts and at most 3 backoff sleeps.
C2_AttemptCeiling ==
    /\ attempts <= max_retries + 1
    /\ Len(sleeps) <= max_retries

\* C3: an attempt answered 401 or 403 ends the call with AuthenticationError
\* and one answered 404 with InvalidStationError, in that very step and at
\* any retry_count: no sleep is started, and the only step a finished call
\* can take is a fresh call.
C3_FatalStatusImmediate ==
    [][ /\ \A st \in {401, 403, 404} :
            (IsAttemptStep /\ rq_last'.out = [via |-> "response", status |-> st])
                => /\ rq_pc' = "done"
                   /\ rq_result' = IF st = 404 THEN "InvalidStationError"
                                               ELSE "AuthenticationError"
                   /\ sleeps' = sleeps
        /\ rq_pc = "done" => (rq_pc' = "attempt" /\ attempts' = 0 /\ sleeps' = <<>>)
      ]_vars

\* a fatal status ended the call after earlier transient failures
C3_Witness ==
    /\ rq_pc = "done"
    /\ rq_result \in {"AuthenticationError", "InvalidStationError"}
    /\ rq_last.out.status \in {401, 403, 404}
    /\ rq_last.rc >= 2
    /\ attempts >= 3

\* C4: a 5xx, a timeout or a network error in the attempt with retry_count
\* k < 3 is followed by a sleep of 2^k seconds in that frame (and then one
\* more attempt); at k = 3 it ends the call with NationalRailAPIError; and a
\* 200 ends the call with the body.
C4_TransientRetry ==
    [][ /\ (IsAttemptStep /\ IsTransientFailure(rq_last'.out))
            => IF retry_count < max_retries
               THEN /\ rq_pc' = "sleep"
                    /\ retry_count' = retry_count
                    /\ wait_time' = 2 ^ retry_count
               ELSE /\ rq_pc' = "done"
                    /\ rq_result' = "NationalRailAPIError"
        /\ (IsAttemptStep /\ rq_last'.out = [via |-> "response", status |-> 200])
            => (rq_pc' = "done" /\ rq_result' = "body")
        /\ rq_pc = "sleep" => (rq_pc' = "attempt" /\ retry_count' = retry_count + 1)
      ]_vars

\* C35: the timeout of an attempt covers that attempt's request and nothing
\* else: no backoff sleep and no later attempt is ended by the timeout of an
\* earlier attempt, and no retry_count value is used for a second attempt
\* (the attempt about to be made with retry_count k is the k+1-th).
C35_PerAttemptTimeoutOnly ==
    /\ ~rq_cut
    /\ rq_pc = "attempt" => attempts = retry_count

\* the call is running: an attempt or a backoff sleep is in progress
InFlight == rq_pc \in {"attempt", "sleep"}

\* the call has returned or raised one of the errors of the taxonomy
Ended ==
    /\ rq_pc = "done"
    /\ rq_result \in {"body", "AuthenticationError", "RateLimitError",
                      "InvalidStationError", "NationalRailAPIError"}

\* C36: every call terminates. While a call runs, the running frame has
\* retry_count <= 3 (at most 4 nested frames); and, given that every network
\* attempt ends and every sleep ends, a running call eventually returns the
\* body or raises one of the taxonomy errors.
C36_CallTerminates ==
    /\ [](retry_count <= max_retries)
    /\ InFlight ~> Ended

\* a call that went through all four frames has ended
C36_Witness ==
    /\ Ended
    /\ rq_last.rc = max_retries
    /\ Len(sleeps) >= max_retries

--------------------------------------------------------------------------
(* NationalRailDataUpdateCoordinator *)

\* self._max_failed_updates
max_failed_updates == 3

\* timedelta(hours=2), in minutes
STALE_MINUTES == 120

\* const.py: NIGHT_HOURS, PEAK_HOURS and the UPDATE_INTERVAL_* values (minutes)
NIGHT_START == 23
NIGHT_END == 5
PEAK_HOURS == {<<6, 10>>, <<16, 20>>}
UPDATE_INTERVAL_PEAK == 2
UPDATE_INTERVAL_OFF_PEAK == 5
UPDATE_INTERVAL_NIGHT == 15
NIGHT_FALLBACK_INTERVAL == 60

\* the errors get_departure_board lets through: NationalRailAPIError and its subclasses
ApiErrors == {"AuthenticationError", "InvalidStationError", "RateLimitError",
              "NationalRailAPIError"}

\* Bounds of the coordinator model
MaxElapsed == 250        \* minutes of wall-clock time explored after construction
MaxFailedUpdates == 5    \* cap of the failure counter
NumBoards == 2           \* distinct departure boards a fetch can return

StartTimes == {4 * 60, 9 * 60, 22 * 60}
TickSteps == {30, 60, 61}

\* self.data is None
NoData == [services |-> 0, last_updated |-> -1, next_update |-> -1]

NoCycle == [kind |-> "none", err |-> "none", at |-> -1, prev |-> NoData, returned |-> NoData]

\* GetUpdateInterval whose night band runs up to and including NIGHT_END.
GetUpdateInterval_InclusiveNightEnd(hour, night) ==
    IF NIGHT_START <= hour \/ hour <= NIGHT_END
    THEN IF ~night THEN NIGHT_FALLBACK_INTERVAL ELSE UPDATE_INTERVAL_NIGHT
    ELSE IF \E band \in PEAK_HOURS : band[1] <= hour /\ hour < band[2]
         THEN UPDATE_INTERVAL_PEAK
         ELSE UPDATE_INTERVAL_OFF_PEAK

\* GetUpdateInterval that gives no interval for a night without night updates.
GetUpdateInterval_NightOff(hour, night) ==
    IF NIGHT_START <= hour \/ hour < NIGHT_END
    THEN IF ~night THEN 0 ELSE UPDATE_INTERVAL_NIGHT
    ELSE IF \E band \in PEAK_HOURS : band[1] <= hour /\ hour < band[2]
         THEN UPDATE_INTERVAL_PEAK
         ELSE UPDATE_INTERVAL_OFF_PEAK

\* GetUpdateInterval whose fallback for a night without updates is 6 hours.
GetUpdateInterval_LongFallback(hour, night) ==
    IF NIGHT_START <= hour \/ hour < NIGHT_END
    THEN IF ~night THEN 6 * 60 ELSE UPDATE_INTERVAL_NIGHT
    ELSE IF \E band \in PEAK_HOURS : band[1] <= hour /\ hour < band[2]
         THEN UPDATE_INTERVAL_PEAK
         ELSE UPDATE_INTERVAL_OFF_PEAK

\* _get_update_interval with now.hour = hour
GetUpdateInterval(hour, night) ==
    IF NIGHT_START <= hour \/ hour < NIGHT_END
    THEN IF ~night THEN NIGHT_FALLBACK_INTERVAL ELSE UPDATE_INTERVAL_NIGHT
    ELSE IF \E band \in PEAK_HOURS : band[1] <= hour /\ hour < band[2]
         THEN UPDATE_INTERVAL_PEAK
         ELSE UPDATE_INTERVAL_OFF_PEAK

HourOf(t) == (t \div 60) % 24

\* NewInterval that keeps the interval the coordinator already has.
NewInterval_Kept(current, now, night) == current

\* the interval a refresh cycle leaves (lines 170-174): _get_update_interval()
\* at the start of the cycle replaces the current one when it differs
NewInterval(current, now, night) ==
    LET new_interval == GetUpdateInterval(HourOf(now), night)
    IN IF new_interval # current THEN new_interval ELSE current

\* FailureOutcome with the ceiling tested by > instead of >=.
FailureOutcome_GtCeiling(failed, d, now) ==
    IF failed > max_failed_updates THEN "UpdateFailed"
    ELSE IF d # NoData /\ now - d.last_updated > STALE_MINUTES THEN "UpdateFailed"
    ELSE IF d # NoData THEN "stale"
    ELSE "UpdateFailed"

\* FailureOutcome with the age tested by >= instead of >.
FailureOutcome_GeStale(failed, d, now) ==
    IF failed >= max_failed_updates THEN "UpdateFailed"
    ELSE IF d # NoData /\ now - d.last_updated >= STALE_MINUTES THEN "UpdateFailed"
    ELSE IF d # NoData THEN "stale"
    ELSE "UpdateFailed"

\* FailureOutcome returning self.data without testing that it is set.
FailureOutcome_NoDataCheck(failed, d, now) ==
    IF failed >= max_failed_updates THEN "UpdateFailed"
    ELSE IF d # NoData /\ now - d.last_updated > STALE_MINUTES THEN "UpdateFailed"
    ELSE "stale"

\* The except branch of _async_update_data after the counter was incremented
\* to `failed`: "UpdateFailed" when it raises, "stale" when it returns self.data.
\* (last_updated is a non-empty ISO string written by _parse_data, so the
\* truthiness test and parse_datetime both succeed on a real snapshot.)
FailureOutcome(failed, d, now) ==
    IF failed >= max_failed_updates THEN "UpdateFailed"
    ELSE IF d # NoData /\ now - d.last_updated > STALE_MINUTES THEN "UpdateFailed"
    ELSE IF d # NoData THEN "stale"
    ELSE "UpdateFailed"

\* _parse_data: the snapshot built from a fetched board
ParseData(board, now, interval) ==
    [services |-> board, last_updated |-> now, next_update |-> now + interval]

\* RefreshSuccess that leaves the failure counter as it was.
RefreshSuccess_NoReset(board) ==
    LET interval == NewInterval(update_interval, co_now, night_updates_enabled)
        snap == ParseData(board, co_now, interval)
    IN /\ update_interval' = interval
       /\ failed_updates' = failed_updates
       /\ data' = snap
       /\ co_last' = [kind |-> "fresh", err |-> "none", at |-> co_now,
                      prev |-> data, returned |-> snap]
       /\ co_consec' = 0
       /\ co_ever_ok' = TRUE
       /\ UNCHANGED <<co_now, co_start, night_updates_enabled>>
       /\ UNCHANGED NotCoord

\* One refresh cycle whose get_departure_board returns a board.  The host's
\* DataUpdateCoordinator stores the returned snapshot in self.data.
RefreshSuccess(board) ==
    LET interval == NewInterval(update_interval, co_now, night_updates_enabled)
        snap == ParseData(board, co_now, interval)
    IN /\ update_interval' = interval
       /\ failed_updates' = 0
       /\ data' = snap
       /\ co_last' = [kind |-> "fresh", err |-> "none", at |-> co_now,
                      prev |-> data, returned |-> snap]
       /\ co_consec' = 0
       /\ co_ever_ok' = TRUE
       /\ UNCHANGED <<co_now, co_start, night_updates_enabled>>
       /\ UNCHANGED NotCoord

\* One refresh cycle whose get_departure_board raises err.  On UpdateFailed
\* the host keeps self.data; on a returned snapshot it stores it.
RefreshFailure(err) ==
    /\ failed_updates < MaxFailedUpdates
    /\ LET failed == failed_updates + 1
           kind == FailureOutcome(failed, data, co_now)
           returned == IF kind = "stale" THEN data ELSE NoData
       IN /\ update_interval' = NewInterval(update_interval, co_now, night_updates_enabled)
          /\ failed_updates' = failed
          /\ data' = IF kind = "stale" THEN returned ELSE data
          /\ co_last' = [kind |-> kind, err |-> err, at |-> co_now,
                         prev |-> data, returned |-> returned]
    /\ co_consec' = co_consec + 1
    /\ UNCHANGED <<co_now, co_start, night_updates_enabled, co_ever_ok>>
    /\ UNCHANGED NotCoord

\* Wall-clock time passes between refresh cycles.
Tick(step) ==
    /\ co_now + step - co_start <= MaxElapsed
    /\ co_now' = co_now + step
    /\ UNCHANGED <<co_start, night_updates_enabled, update_interval,
                   failed_updates, data, co_last, co_consec, co_ever_ok>>
    /\ UNCHANGED NotCoord

\* __init__ at time t with the night-updates option `night`
CoordInitAt(t, night) ==
    /\ co_now = t
    /\ co_start = co_now
    /\ night_updates_enabled = night
    /\ update_interval = GetUpdateInterval(HourOf(co_now), night_updates_enabled)
    /\ failed_updates = 0
    /\ data = NoData
    /\ co_last = NoCycle
    /\ co_consec = 0
    /\ co_ever_ok = FALSE

CoordInit == \E t \in StartTimes, night \in BOOLEAN : CoordInitAt(t, night)

CoordNext ==
    \/ \E board \in 1 .. NumBoards : RefreshSuccess(board)
    \/ \E err \in ApiErrors : RefreshFailure(err)
    \/ \E step \in TickSteps : Tick(step)

\* the times of day a coordinator is constructed at: the first and the last
\* minute of every hour
ScheduleTimes == {60 * hour + minute : hour \in 0 .. 23, minute \in {0, 59}}

\* update_interval before __init__ has set it
NotScheduled == 0

\* __init__ (lines 122-130): the first interval, from the hour of construction
ConstructSchedule ==
    /\ update_interval = NotScheduled
    /\ update_interval' = GetUpdateInterval(HourOf(co_now), night_updates_enabled)
    /\ UNCHANGED <<co_now, co_start, night_updates_enabled, failed_updates,
                   data, co_last, co_consec, co_ever_ok>>
    /\ UNCHANGED NotCoord

\* a coordinator about to be constructed at time t
ScheduleInit ==
    /\ co_now \in ScheduleTimes
    /\ co_start = co_now
    /\ night_updates_enabled \in BOOLEAN
    /\ update_interval = NotScheduled
    /\ failed_updates = 0
    /\ data = NoData
    /\ co_last = NoCycle
    /\ co_consec = 0
    /\ co_ever_ok = FALSE

ScheduleNext == ConstructSchedule

\* Refreshes driven by the host's timer alone: the first refresh runs at
\* construction, and after every refresh the next one is scheduled
\* update_interval later.
MaxTimerElapsed == 450   \* minutes of scheduled polling explored

\* times of construction: before, at and inside the night band
TimerStarts == {22 * 60 + 57, 23 * 60, 60 + 30, 4 * 60 + 1, 4 * 60 + 59}

\* the time the interval in force was set at: the latest refresh, or __init__
IntervalSetAt == IF co_last = NoCycle THEN co_start ELSE co_last.at

\* a refresh is due: none has run yet, or the timer has fired
RefreshDue == co_last = NoCycle \/ co_now > co_last.at

\* the timer set after the latest refresh fires update_interval later
TimerWait ==
    /\ ~RefreshDue
    /\ co_now + update_interval - co_start <= MaxTimerElapsed
    /\ co_now' = co_now + update_interval
    /\ UNCHANGED <<co_start, night_updates_enabled, update_interval,
                   failed_updates, data, co_last, co_consec, co_ever_ok>>
    /\ UNCHANGED NotCoord

\* the refresh the timer (or the first refresh) starts fetches a board
TimerRefreshSuccess(board) == RefreshDue /\ RefreshSuccess(board)

\* the refresh the timer (or the first refresh) starts fails with err
TimerRefreshFailure(err) == RefreshDue /\ RefreshFailure(err)

TimerInit == \E t \in TimerStarts, night \in BOOLEAN : CoordInitAt(t, night)

TimerNext ==
    \/ TimerWait
    \/ \E board \in 1 .. NumBoards : TimerRefreshSuccess(board)
    \/ \E err \in ApiErrors : TimerRefreshFailure(err)

--------------------------------------------------------------------------
(* Properties of the refresh cycle *)

\* the latest cycle failed with a client error
CycleFailed == co_last.err \in ApiErrors

\* age, at the latest cycle, of the snapshot that cycle started with
PrevAge == co_last.at - co_last.prev.last_updated

\* C5: a refresh that fails with a client error as the 3rd or a later
\* consecutive failure raises UpdateFailed and returns no snapshot, also when
\* a fresh previous snapshot exists.
C5_CeilingHardFailure ==
    (CycleFailed /\ co_consec >= 3)
        => (co_last.kind = "UpdateFailed" /\ co_last.returned = NoData)

\* a 4th consecutive failure, with a snapshot under 2 hours old, failed hard
C5_Witness ==
    /\ CycleFailed /\ co_consec >= 4
    /\ co_last.prev # NoData /\ PrevAge <= STALE_MINUTES
    /\ co_last.kind = "UpdateFailed"

\* C6: a failed refresh below the ceiling with a previous snapshot returns
\* that snapshot unchanged when it is at most 2 hours old, and raises
\* UpdateFailed when it is older.
C6_ServeStaleOrFail ==
    (CycleFailed /\ co_consec < 3 /\ co_last.prev # NoData)
        => IF PrevAge <= STALE_MINUTES
           THEN /\ co_last.kind = "stale"
                /\ co_last.returned = co_last.prev
                /\ data = co_last.prev
           ELSE /\ co_last.kind = "UpdateFailed"
                /\ co_last.returned = NoData

\* a snapshot exactly 2 hours old was served
C6_WitnessServed ==
    /\ CycleFailed /\ co_consec < 3 /\ co_last.prev # NoData
    /\ PrevAge = STALE_MINUTES /\ co_last.kind = "stale"

\* C7: without a previous snapshot every failed refresh raises UpdateFailed;
\* a snapshot is held or served only after some refresh fetched a board.
C7_NoSnapshotNoFallback ==
    /\ (CycleFailed /\ co_last.prev = NoData)
           => (co_last.kind = "UpdateFailed" /\ co_last.returned = NoData /\ data = NoData)
    /\ (data # NoData \/ co_last.returned # NoData) => co_ever_ok

\* two failures in a row from a cold start, both hard
C7_Witness ==
    /\ CycleFailed /\ co_last.prev = NoData /\ ~co_ever_ok
    /\ co_consec = 2 /\ co_last.kind = "UpdateFailed"

\* C8: a refresh in which the client raised AuthenticationError raises
\* UpdateFailed; it never returns the previous snapshot.
C8_AuthFailureSurfaced ==
    co_last.err = "AuthenticationError" => co_last.kind = "UpdateFailed"

\* the latest cycle was the first failure after a successful refresh
FirstFailureAfterSuccess == CycleFailed /\ co_consec = 1 /\ co_ever_ok

\* C37 as claimed: the failure counter is the number of failed refreshes
\* since the last successful one; a stale snapshot is returned by the first
\* or second failure in a row only (at most 2 consecutive stale refreshes);
\* and the first failure after a successful refresh is always answered with
\* the snapshot of that refresh.
C37_FirstFailureServed ==
    /\ failed_updates = co_consec
    /\ co_last.kind = "stale" => co_consec \in {1, 2}
    /\ FirstFailureAfterSuccess
          => (co_last.kind = "stale" /\ co_last.returned = co_last.prev)

\* C37 amended: the failure counter is the number of failed refreshes since
\* the last successful one; a stale snapshot is returned by the first or
\* second failure in a row only; and the first failure after a successful
\* refresh is answered with the snapshot of that refresh when that snapshot
\* is at most 2 hours old at the failure, and with UpdateFailed when it is
\* older.
C37_FirstFailureServedIfRecent ==
    /\ failed_updates = co_consec
    /\ co_last.kind = "stale" => co_consec \in {1, 2}
    /\ FirstFailureAfterSuccess
          => IF PrevAge <= STALE_MINUTES
             THEN co_last.kind = "stale" /\ co_last.returned = co_last.prev
             ELSE co_last.kind = "UpdateFailed" /\ co_last.returned = NoData

\* a refresh succeeded more than an hour after construction and the failure
\* after it was answered with the snapshot of that refresh
C37_Witness ==
    /\ FirstFailureAfterSuccess
    /\ co_last.kind = "stale"
    /\ co_last.prev.last_updated > co_start + 60
    /\ co_last.returned = co_last.prev

\* the hour of time t lies in the night band 23:00-04:59
AtNight(t) == HourOf(t) >= 23 \/ HourOf(t) < 5

\* C38: with night updates disabled and refreshes driven by the schedule
\* alone, the 1-hour fallback interval is in force only after a refresh (or
\* the construction) that started between 23:00 and 04:59, and the clock is
\* never past the time the next refresh is due; the first refresh that
\* starts at or after 05:00 starts no later than 05:59, at most an hour after
\* the one before, and sets a daytime interval of 5 or 2 minutes.
C38_DawnResumption ==
    /\ [](~night_updates_enabled =>
            /\ update_interval = 60 => AtNight(IntervalSetAt)
            /\ co_now <= IntervalSetAt + update_interval)
    /\ [][ (~night_updates_enabled /\ co_last' # co_last
              /\ AtNight(IntervalSetAt) /\ ~AtNight(co_now))
            => /\ HourOf(co_now) = 5
               /\ co_now - IntervalSetAt <= 60
               /\ update_interval' \in {2, 5} ]_vars

\* a coordinator constructed at 01:30 without night updates polled hourly
\* and its refresh at 05:30 has set the 5-minute interval
C38_Witness ==
    /\ ~night_updates_enabled
    /\ HourOf(co_start) = 1
    /\ co_last # NoCycle /\ co_last.at = 5 * 60 + 30
    /\ update_interval = 5

\* the interval of the band that holds hour h
BandInterval(h, night) ==
    IF h >= 23 \/ h < 5 THEN (IF night THEN 15 ELSE 60)
    ELSE IF (6 <= h /\ h < 10) \/ (16 <= h /\ h < 20) THEN 2
    ELSE 5

\* C27: the polling interval is a total function of the hour h in 0..23 and
\* the night-updates flag, the night test first: h >= 23 or h < 5 gives 60
\* minutes when night updates are disabled and 15 when enabled; otherwise
\* 6 <= h < 10 or 16 <= h < 20 gives 2 minutes; otherwise 5 minutes.
C27_IntervalByBand ==
    update_interval # NotScheduled =>
        /\ co_now \div 60 \in 0 .. 23
        /\ update_interval = BandInterval(co_now \div 60, night_updates_enabled)

\* a coordinator constructed at 05:00 without night updates polls every 5
\* minutes
C27_Witness ==
    /\ co_now = 5 * 60
    /\ ~night_updates_enabled
    /\ update_interval = 5

C29_RefreshNeverSuppressed ==
    /\ update_interval \in {2, 5, 15, 60}
    /\ \A board \in 1 .. NumBoards : ENABLED RefreshSuccess(board)
    /\ co_last.kind # "none" =>
          /\ co_last.kind \in {"fresh", "stale", "UpdateFailed"}
          /\ co_last.kind = "fresh" <=> co_last.err = "none"

\* a cycle at night, night updates disabled, fetched a board
C29_Witness ==
    /\ ~night_updates_enabled
    /\ co_last.kind = "fresh"
    /\ (co_last.at \div 60) % 24 \in {23, 0, 1, 2, 3, 4}
    /\ update_interval = 60

--------------------------------------------------------------------------
(* TrainSensor: the platform-change tracker of one train slot *)

\* Bounds of the tracker model
MaxServices == 2       \* services in a snapshot
MaxTrainNumber == 2    \* slots tried

\* values of train.get("platform") and train.get("service_id"); "None" is None
PlatformValues == {"None", "", "3", "5", "7"}
ServiceIdValues == {"None", "", "S1", "S2"}

Trains == [service_id : ServiceIdValues, platform : PlatformValues]

\* the service lists a snapshot can hold
RECURSIVE SeqsUpTo(_, _)
SeqsUpTo(S, n) ==
    IF n = 0 THEN {<<>>}
    ELSE LET shorter == SeqsUpTo(S, n - 1)
         IN shorter \cup {Append(q, x) : q \in {r \in shorter : Len(r) = n - 1}, x \in S}

ServiceLists == SeqsUpTo(Trains, MaxServices)

\* Python truthiness of an optional string
Truthy(str) == str # "None" /\ str # ""

\* train.get("platform") or ""
PlatformOrEmpty(platform) == IF Truthy(platform) THEN platform ELSE ""

NoTrain == [present |-> FALSE, service_id |-> "None", platform |-> "None"]

\* the slot of train number n in a service list
SlotOf(services, n) ==
    IF Len(services) >= n
    THEN [present |-> TRUE, service_id |-> services[n].service_id,
          platform |-> services[n].platform]
    ELSE NoTrain

EmptyTracker == [previous_platform |-> "None", platform_changed |-> FALSE,
                 current_service_id |-> "None"]

\* TrackerUpdate that stores the new platform when it flags a change.
TrackerUpdate_Overwrite(st, services, n) ==
    IF Len(services) >= n THEN
        LET train == services[n]
            current_platform == PlatformOrEmpty(train.platform)
            sid == train.service_id
        IN IF Truthy(sid) /\ sid = st.current_service_id THEN
               IF st.previous_platform # current_platform THEN
                   IF st.previous_platform # "None"
                   THEN [st EXCEPT !.platform_changed = TRUE,
                                   !.previous_platform = current_platform]
                   ELSE [st EXCEPT !.previous_platform = current_platform,
                                   !.platform_changed = FALSE]
               ELSE [st EXCEPT !.platform_changed = FALSE]
           ELSE [previous_platform |-> current_platform, platform_changed |-> FALSE,
                 current_service_id |-> sid]
    ELSE EmptyTracker

\* TrackerUpdate without the branch that clears the flag on an equal platform.
TrackerUpdate_Sticky(st, services, n) ==
    IF Len(services) >= n THEN
        LET train == services[n]
            current_platform == PlatformOrEmpty(train.platform)
            sid == train.service_id
        IN IF Truthy(sid) /\ sid = st.current_service_id THEN
               IF st.previous_platform # current_platform THEN
                   IF st.previous_platform # "None"
                   THEN [st EXCEPT !.platform_changed = TRUE]
                   ELSE [st EXCEPT !.previous_platform = current_platform,
                                   !.platform_changed = FALSE]
               ELSE st
           ELSE [previous_platform |-> current_platform, platform_changed |-> FALSE,
                 current_service_id |-> sid]
    ELSE EmptyTracker

\* TrackerUpdate whose reset for another occupant leaves the flag as it was.
TrackerUpdate_NoFlagReset(st, services, n) ==
    IF Len(services) >= n THEN
        LET train == services[n]
            current_platform == PlatformOrEmpty(train.platform)
            sid == train.service_id
        IN IF Truthy(sid) /\ sid = st.current_service_id THEN
               IF st.previous_platform # current_platform THEN
                   IF st.previous_platform # "None"
                   THEN [st EXCEPT !.platform_changed = TRUE]
                   ELSE [st EXCEPT !.previous_platform = current_platform,
                                   !.platform_changed = FALSE]
               ELSE [st EXCEPT !.platform_changed = FALSE]
           ELSE [previous_platform |-> current_platform,
                 platform_changed |-> st.platform_changed,
                 current_service_id |-> sid]
    ELSE EmptyTracker

\* TrackerUpdate that leaves the tracker alone when the slot is empty.
TrackerUpdate_KeepOnEmpty(st, services, n) ==
    IF Len(services) >= n THEN
        LET train == services[n]
            current_platform == PlatformOrEmpty(train.platform)
            sid == train.service_id
        IN IF Truthy(sid) /\ sid = st.current_service_id THEN
               IF st.previous_platform # current_platform THEN
                   IF st.previous_platform # "None"
                   THEN [st EXCEPT !.platform_changed = TRUE]
                   ELSE [st EXCEPT !.previous_platform = current_platform,
                                   !.platform_changed = FALSE]
               ELSE [st EXCEPT !.platform_changed = FALSE]
           ELSE [previous_platform |-> current_platform, platform_changed |-> FALSE,
                 current_service_id |-> sid]
    ELSE st

\* TrackerUpdate that compares the ids without testing that the new one is set.
TrackerUpdate_NoTruthy(st, services, n) ==
    IF Len(services) >= n THEN
        LET train == services[n]
            current_platform == PlatformOrEmpty(train.platform)
            sid == train.service_id
        IN IF sid = st.current_service_id THEN
               IF st.previous_platform # current_platform THEN
                   IF st.previous_platform # "None"
                   THEN [st EXCEPT !.platform_changed = TRUE]
                   ELSE [st EXCEPT !.previous_platform = current_platform,
                                   !.platform_changed = FALSE]
               ELSE [st EXCEPT !.platform_changed = FALSE]
           ELSE [previous_platform |-> current_platform, platform_changed |-> FALSE,
                 current_service_id |-> sid]
    ELSE EmptyTracker

\* TrackerUpdate whose reset for another occupant records no platform.
TrackerUpdate_ResetToNone(st, services, n) ==
    IF Len(services) >= n THEN
        LET train == services[n]
            current_platform == PlatformOrEmpty(train.platform)
            sid == train.service_id
        IN IF Truthy(sid) /\ sid = st.current_service_id THEN
               IF st.previous_platform # current_platform THEN
                   IF st.previous_platform # "None"
                   THEN [st EXCEPT !.platform_changed = TRUE]
                   ELSE [st EXCEPT !.previous_platform = current_platform,
                                   !.platform_changed = FALSE]
               ELSE [st EXCEPT !.platform_changed = FALSE]
           ELSE [previous_platform |-> "None", platform_changed |-> FALSE,
                 current_service_id |-> sid]
    ELSE EmptyTracker

\* The tracking part of _handle_coordinator_update for a snapshot's service
\* list: the new (previous_platform, platform_changed, current_service_id).
TrackerUpdate(st, services, n) ==
    IF Len(services) >= n THEN
        LET train == services[n]
            current_platform == PlatformOrEmpty(train.platform)
            sid == train.service_id
        IN IF Truthy(sid) /\ sid = st.current_service_id THEN
               IF st.previous_platform # current_platform THEN
                   IF st.previous_platform # "None"
                   THEN [st EXCEPT !.platform_changed = TRUE]
                   ELSE [st EXCEPT !.previous_platform = current_platform,
                                   !.platform_changed = FALSE]
               ELSE [st EXCEPT !.platform_changed = FALSE]
           ELSE [previous_platform |-> current_platform, platform_changed |-> FALSE,
                 current_service_id |-> sid]
    ELSE EmptyTracker

\* The run of one identified service in the slot, kept beside the tracker:
\* a snapshot with another id at the slot starts a new run at its platform.
NoRun == [sid |-> "None", first |-> "None", seen |-> {}]

RunUpdate(run, obs) ==
    IF obs.present /\ Truthy(obs.service_id) THEN
        IF obs.service_id = run.sid
        THEN [run EXCEPT !.seen = @ \cup {PlatformOrEmpty(obs.platform)}]
        ELSE [sid |-> obs.service_id, first |-> PlatformOrEmpty(obs.platform),
              seen |-> {PlatformOrEmpty(obs.platform)}]
    ELSE NoRun

\* The slot as a snapshot left it: occupant is "none" while no snapshot has
\* been delivered, "empty" for an empty slot, "id" for a service with an id
\* and "noid" for one without; platform is the platform an occupant without
\* id showed ("-" for every other occupant); flagged is platform_changed.
NoPrev == [occupant |-> "none", platform |-> "-", flagged |-> FALSE]

PrevOf(has_data, obs, flagged) ==
    IF ~has_data THEN NoPrev
    ELSE IF ~obs.present THEN [occupant |-> "empty", platform |-> "-", flagged |-> flagged]
    ELSE IF Truthy(obs.service_id)
         THEN [occupant |-> "id", platform |-> "-", flagged |-> flagged]
         ELSE [occupant |-> "noid", platform |-> PlatformOrEmpty(obs.platform),
               flagged |-> flagged]

TrackerState == [previous_platform |-> previous_platform,
                 platform_changed |-> platform_changed,
                 current_service_id |-> current_service_id]

\* extra_state_attributes exposing previous_platform whatever the flag.
ExposedPreviousPlatform_Always(has_data, obs, st) ==
    IF ~has_data \/ ~obs.present THEN "None"
    ELSE st.previous_platform

\* attributes.get("previous_platform") of extra_state_attributes: the key is
\* missing ("None") while there is no snapshot or the slot is empty
ExposedPreviousPlatform(has_data, obs, st) ==
    IF ~has_data \/ ~obs.present THEN "None"
    ELSE IF st.platform_changed THEN st.previous_platform ELSE "None"

\* _handle_coordinator_update with coordinator.data holding `services`
HandleCoordinatorUpdate(services) ==
    LET new == TrackerUpdate(TrackerState, services, train_number)
        obs == SlotOf(services, train_number)
    IN /\ previous_platform' = new.previous_platform
       /\ platform_changed' = new.platform_changed
       /\ current_service_id' = new.current_service_id
       /\ tk_obs' = obs
       /\ tk_hist' = RunUpdate(tk_hist, obs)
       /\ tk_has_data' = TRUE
       /\ tk_prev' = PrevOf(tk_has_data, tk_obs, platform_changed)
       /\ UNCHANGED train_number
       /\ UNCHANGED NotTracker

\* _handle_coordinator_update while coordinator.data is None (no refresh has
\* returned a snapshot yet): early return, nothing is touched
HandleNoData ==
    /\ ~tk_has_data
    /\ UNCHANGED tk_vars
    /\ UNCHANGED NotTracker

\* TrainSensor.__init__ for train number n
TrackerInitFor(n) ==
    /\ train_number = n
    /\ previous_platform = "None"
    /\ platform_changed = FALSE
    /\ current_service_id = "None"
    /\ tk_obs = NoTrain
    /\ tk_hist = NoRun
    /\ tk_has_data = FALSE
    /\ tk_prev = NoPrev

TrackerInit == \E n \in 1 .. MaxTrainNumber : TrackerInitFor(n)

\* The handler of train number n reads len(services) and services[n - 1]
\* only: of the service lists that agree there one is delivered, the one
\* holding Filler at every other place.
Filler == [service_id |-> "S1", platform |-> "3"]

ListsSeenBy ==
    [n \in 1 .. MaxTrainNumber |->
        {services \in ServiceLists :
            \A i \in 1 .. Len(services) : i # n => services[i] = Filler}]

TrackerNext ==
    \/ \E services \in ListsSeenBy[train_number] : HandleCoordinatorUpdate(services)
    \/ HandleNoData

--------------------------------------------------------------------------
(* Properties of the platform-change tracker *)

\* the snapshot just delivered (tk_obs') has the tracked service at the slot
SameServiceNext ==
    /\ tk_obs'.present
    /\ Truthy(tk_obs'.service_id)
    /\ tk_obs'.service_id = current_service_id

\* C9: when the tracked service is at the slot again with a platform other
\* than previous_platform, platform_changed becomes true and
\* previous_platform is kept; so while a service is tracked previous_platform
\* is the platform of the first snapshot of its run in the slot.
C9_ChangeKeepsFirstPlatform ==
    /\ [][ (SameServiceNext /\ PlatformOrEmpty(tk_obs'.platform) # previous_platform)
              => (platform_changed' /\ previous_platform' = previous_platform) ]_vars
    /\ [](Truthy(current_service_id)
              => (tk_hist.sid = current_service_id /\ previous_platform = tk_hist.first))

\* the tracked service went 3 -> 5 -> 7: flagged, previous_platform still "3"
C9_Witness ==
    /\ platform_changed /\ Truthy(current_service_id)
    /\ previous_platform = "3" /\ tk_obs.platform = "7"
    /\ tk_hist.seen = {"3", "5", "7"}

\* C10 as claimed: once platform_changed is true it stays true on every later
\* snapshot that has the same service at the slot, whatever its platform.
C10_StaysFlagged ==
    [][ (platform_changed /\ SameServiceNext) => platform_changed' ]_vars

\* C10 amended: once platform_changed is true, after the next snapshot it is
\* true exactly when the same service is at the slot with a platform other
\* than the one of its first snapshot there; it is false again when the
\* service shows that first platform, another service has the slot, or the
\* slot is empty.
C10_FlaggedWhileDiverged ==
    [][ platform_changed
          => (platform_changed'
                <=> (SameServiceNext /\ PlatformOrEmpty(tk_obs'.platform) # tk_hist.first)) ]_vars

\* a flagged service reported another platform again and stayed flagged
C10_Witness ==
    /\ platform_changed /\ Truthy(current_service_id)
    /\ Cardinality(tk_hist.seen \ {tk_hist.first}) >= 2

\* the slot holds a service with an id
Occupied == tk_obs.present /\ Truthy(tk_obs.service_id)

\* C11: a service id that takes the slot (first observation, or an id other
\* than the tracked one) is adopted, its platform is recorded as
\* previous_platform and platform_changed is false, whatever the tracker held
\* before; the same holds as long as the service has shown one platform only.
C11_NewOccupantNotFlagged ==
    (Occupied /\ Cardinality(tk_hist.seen) = 1)
        => /\ current_service_id = tk_obs.service_id
           /\ previous_platform = PlatformOrEmpty(tk_obs.platform)
           /\ ~platform_changed

\* the slot held a flagged service and another service has just taken it
C11_Witness ==
    /\ tk_prev.occupant = "id" /\ tk_prev.flagged
    /\ Occupied /\ Cardinality(tk_hist.seen) = 1
    /\ current_service_id = "S2" /\ previous_platform = "5" /\ ~platform_changed

\* C12: after a snapshot with fewer services than the slot number the tracker
\* is in the empty state, and the occupant of the next snapshot that fills
\* the slot is recorded as a first observation, not flagged.
C12_EmptySlotResets ==
    /\ (tk_has_data /\ ~tk_obs.present) => TrackerState = EmptyTracker
    /\ (tk_prev.occupant = "empty" /\ tk_obs.present)
          => /\ ~platform_changed
             /\ previous_platform = PlatformOrEmpty(tk_obs.platform)
             /\ current_service_id = tk_obs.service_id

\* a flagged service dropped out of the slot and the tracker was emptied
C12_Witness ==
    /\ tk_prev.occupant = "id" /\ tk_prev.flagged
    /\ tk_has_data /\ ~tk_obs.present
    /\ TrackerState = EmptyTracker

\* C13: while the slot holds a service without id (None or ""), its platform
\* is the recorded one and platform_changed is false, whatever the platform
\* of the snapshot before was.
C13_NoIdNeverFlagged ==
    (tk_obs.present /\ ~Truthy(tk_obs.service_id))
        => /\ previous_platform = PlatformOrEmpty(tk_obs.platform)
           /\ ~platform_changed

\* two snapshots in a row held a service without id, on platforms 3 then 5
C13_Witness ==
    /\ tk_prev.occupant = "noid" /\ tk_prev.platform = "3"
    /\ tk_obs.present /\ ~Truthy(tk_obs.service_id) /\ tk_obs.platform = "5"
    /\ previous_platform = "5" /\ ~platform_changed

\* C14: the exposed previous_platform is None while platform_changed is
\* false; while it is true the slot holds the tracked service and the exposed
\* value is the platform of that service's first snapshot in the slot.
C14_PreviousPlatformExposure ==
    LET exposed == ExposedPreviousPlatform(tk_has_data, tk_obs, TrackerState)
    IN /\ ~platform_changed => exposed = "None"
       /\ platform_changed
            => /\ Occupied /\ tk_obs.service_id = current_service_id
               /\ tk_hist.sid = current_service_id
               /\ exposed = tk_hist.first

\* a service first seen on platform 3 shows platform 5: "3" is exposed
C14_Witness ==
    /\ platform_changed /\ tk_obs.platform = "5" /\ tk_hist.first = "3"
    /\ ExposedPreviousPlatform(tk_has_data, tk_obs, TrackerState) = "3"

\* C39: a snapshot delivered again right after itself (a failed refresh
\* serving the previous snapshot) leaves current_service_id,
\* previous_platform and platform_changed as the first delivery left them:
\* the flag is neither set nor cleared.
C39_RepeatedSnapshotIdempotent ==
    [][ (tk_has_data /\ tk_has_data' /\ tk_obs' = tk_obs)
            => /\ current_service_id' = current_service_id
               /\ previous_platform' = previous_platform
               /\ platform_changed' = platform_changed ]_vars

\* a flagged service was delivered again on the platform that flagged it
\* (it has shown two platforms only and was flagged before and after)
C39_Witness ==
    /\ platform_changed /\ Occupied
    /\ tk_prev.occupant = "id" /\ tk_prev.flagged
    /\ Cardinality(tk_hist.seen) = 2

--------------------------------------------------------------------------
(* NextTrainSensor beside TrainSensor number 1: both are listeners of the  *)
(* same coordinator and are handed every snapshot                          *)

\* what _get_departure_status reads of a service
DepartureFacets ==
    { [is_cancelled |-> TRUE,  delay_minutes |-> 0, expected_departure |-> "10:00"],
      [is_cancelled |-> FALSE, delay_minutes |-> 5, expected_departure |-> "10:05"],
      [is_cancelled |-> FALSE, delay_minutes |-> 0, expected_departure |-> "09:55"],
      [is_cancelled |-> FALSE, delay_minutes |-> 0, expected_departure |-> "10:00"],
      [is_cancelled |-> FALSE, delay_minutes |-> 0, expected_departure |-> "None"] }

MirrorTrains ==
    { [service_id |-> t.service_id, platform |-> t.platform,
       scheduled_departure |-> "10:00",
       expected_departure |-> f.expected_departure,
       delay_minutes |-> f.delay_minutes, is_cancelled |-> f.is_cancelled]
      : t \in Trains, f \in DepartureFacets }

MirrorFiller ==
    [service_id |-> "S2", platform |-> "5", scheduled_departure |-> "10:00",
     expected_departure |-> "10:05", delay_minutes |-> 5, is_cancelled |-> FALSE]

\* Both sensors read services[0] and whether there is one: the lists
\* delivered are empty, one service, or one service followed by MirrorFiller.
MirrorLists ==
    {<<>>} \cup {<<t>> : t \in MirrorTrains} \cup {<<t, MirrorFiller>> : t \in MirrorTrains}

\* TrainSensor._get_departure_status
GetDepartureStatus(train) ==
    IF train.is_cancelled THEN "Cancelled"
    ELSE IF train.delay_minutes > 0 THEN "Delayed"
    ELSE IF Truthy(train.expected_departure)
            /\ train.expected_departure # train.scheduled_departure
         THEN "Expected"
         ELSE "On Time"

\* NextTrainSensor._get_departure_status
NextGetDepartureStatus(train) ==
    IF train.is_cancelled THEN "Cancelled"
    ELSE IF train.delay_minutes > 0 THEN "Delayed"
    ELSE IF Truthy(train.expected_departure)
            /\ train.expected_departure # train.scheduled_departure
         THEN "Expected"
         ELSE "On Time"

\* TrainSensor.native_value of train number n
NativeValue(has_data, services, n) ==
    IF ~has_data THEN "None"
    ELSE IF Len(services) < n THEN "No service"
    ELSE GetDepartureStatus(services[n])

\* NextTrainSensor.native_value
NextNativeValue(has_data, services) ==
    IF ~has_data THEN "None"
    ELSE IF services = <<>> THEN "No service"
    ELSE NextGetDepartureStatus(services[1])

\* NextTrainUpdate that takes a service without id for the tracked one.
NextTrainUpdate_NoTruthy(st, services) ==
    IF services # <<>> THEN
        LET train == services[1]
            current_platform == PlatformOrEmpty(train.platform)
            sid == train.service_id
        IN IF sid = st.current_service_id THEN
               IF st.previous_platform # current_platform THEN
                   IF st.previous_platform # "None"
                   THEN [st EXCEPT !.platform_changed = TRUE]
                   ELSE [st EXCEPT !.previous_platform = current_platform,
                                   !.platform_changed = FALSE]
               ELSE [st EXCEPT !.platform_changed = FALSE]
           ELSE [previous_platform |-> current_platform, platform_changed |-> FALSE,
                 current_service_id |-> sid]
    ELSE EmptyTracker

\* The tracking part of NextTrainSensor._handle_coordinator_update
NextTrainUpdate(st, services) ==
    IF services # <<>> THEN
        LET train == services[1]
            current_platform == PlatformOrEmpty(train.platform)
            sid == train.service_id
        IN IF Truthy(sid) /\ sid = st.current_service_id THEN
               IF st.previous_platform # current_platform THEN
                   IF st.previous_platform # "None"
                   THEN [st EXCEPT !.platform_changed = TRUE]
                   ELSE [st EXCEPT !.previous_platform = current_platform,
                                   !.platform_changed = FALSE]
               ELSE [st EXCEPT !.platform_changed = FALSE]
           ELSE [previous_platform |-> current_platform, platform_changed |-> FALSE,
                 current_service_id |-> sid]
    ELSE EmptyTracker

\* The coordinator hands a snapshot to its listeners: the handlers of
\* TrainSensor 1 and of NextTrainSensor both run on it.
NotifyListeners(services) ==
    /\ mi_has_data' = TRUE
    /\ mi_services' = services
    /\ mi_train' = TrackerUpdate(mi_train, services, 1)
    /\ mi_next' = NextTrainUpdate(mi_next, services)
    /\ UNCHANGED NotMirror

\* The listeners run while coordinator.data is None: both return early.
NotifyNoData ==
    /\ ~mi_has_data
    /\ UNCHANGED mi_vars
    /\ UNCHANGED NotMirror

\* TrainSensor.__init__(.., 1) and NextTrainSensor.__init__
MirrorInit ==
    /\ mi_has_data = FALSE
    /\ mi_services = <<>>
    /\ mi_train = EmptyTracker
    /\ mi_next = EmptyTracker

MirrorNext ==
    \/ \E services \in MirrorLists : NotifyListeners(services)
    \/ NotifyNoData

\* C33: after any sequence of snapshots delivered to both sensors, the
\* tracker fields of NextTrainSensor (current service id, previous_platform,
\* platform_changed) equal those of TrainSensor number 1, and the two sensors
\* report the same departure status for the first service.
C33_NextTrainMirrorsTrainOne ==
    /\ mi_next = mi_train
    /\ NextNativeValue(mi_has_data, mi_services) = NativeValue(mi_has_data, mi_services, 1)

\* both sensors flag a platform change of a delayed first service
C33_Witness ==
    /\ mi_train.platform_changed /\ mi_next.platform_changed
    /\ mi_next.previous_platform = "3" /\ mi_services[1].platform = "5"
    /\ NextNativeValue(mi_has_data, mi_services) = "Delayed"

--------------------------------------------------------------------------
(* NationalRailDataUpdateCoordinator.__init__: delay thresholds *)

DEFAULT_SEVERE_DELAY_THRESHOLD == 15
DEFAULT_MAJOR_DELAY_THRESHOLD == 10
DEFAULT_MINOR_DELAY_THRESHOLD == 3
MIN_DELAY_THRESHOLD == 1
DEFAULT_NUM_SERVICES == 3

\* values a stored threshold can hold (the storage file can be edited by hand)
ThresholdValues == {-3, -2, -1, 0, 1, 2, 3, 5, 10, 15, 30, 60}

\* config entries in the new format: the three threshold keys
NewConfigs ==
    [num_services : {DEFAULT_NUM_SERVICES},
     severe_delay_threshold : ThresholdValues,
     major_delay_threshold : ThresholdValues,
     minor_delay_threshold : ThresholdValues]

\* config entries in the old format: single/multiple delay keys, each optional
OldConfigs ==
    [num_services : {DEFAULT_NUM_SERVICES}]
    \cup [num_services : {DEFAULT_NUM_SERVICES}, disruption_single_delay : ThresholdValues]
    \cup [num_services : {DEFAULT_NUM_SERVICES}, disruption_multiple_delay : ThresholdValues]
    \cup [num_services : {DEFAULT_NUM_SERVICES}, disruption_single_delay : ThresholdValues,
          disruption_multiple_delay : ThresholdValues]

Configs == NewConfigs \cup OldConfigs

\* config.get(key, default)
ConfigGet(cfg, key, default) == IF key \in DOMAIN cfg THEN cfg[key] ELSE default

\* the thresholds read from the config, before validation (lines 81-96);
\* the stored values are integers, which int() returns unchanged
ConfiguredThresholds(cfg) ==
    IF "severe_delay_threshold" \in DOMAIN cfg
    THEN [severe |-> cfg.severe_delay_threshold,
          major |-> cfg.major_delay_threshold,
          minor |-> cfg.minor_delay_threshold]
    ELSE [severe |-> ConfigGet(cfg, "disruption_single_delay", DEFAULT_SEVERE_DELAY_THRESHOLD),
          major |-> ConfigGet(cfg, "disruption_multiple_delay", DEFAULT_MAJOR_DELAY_THRESHOLD),
          minor |-> DEFAULT_MINOR_DELAY_THRESHOLD]

DefaultThresholds == [severe |-> DEFAULT_SEVERE_DELAY_THRESHOLD,
                      major |-> DEFAULT_MAJOR_DELAY_THRESHOLD,
                      minor |-> DEFAULT_MINOR_DELAY_THRESHOLD]

\* ValidatedThresholds that replaces the minor threshold only.
ValidatedThresholds_MinorOnly(cfg) ==
    LET t == ConfiguredThresholds(cfg)
    IN IF ~(t.severe >= t.major /\ t.major >= t.minor /\ t.minor >= MIN_DELAY_THRESHOLD)
       THEN [t EXCEPT !.minor = DEFAULT_MINOR_DELAY_THRESHOLD]
       ELSE t

\* the thresholds __init__ leaves in the coordinator (lines 81-116)
ValidatedThresholds(cfg) ==
    LET t == ConfiguredThresholds(cfg)
    IN IF ~(t.severe >= t.major /\ t.major >= t.minor /\ t.minor >= MIN_DELAY_THRESHOLD)
       THEN DefaultThresholds
       ELSE t

\* the fields before __init__ has run
NotConstructed == [severe |-> 0, major |-> 0, minor |-> 0]

\* __init__: num_services and the validated thresholds
Construct ==
    /\ thresholds = NotConstructed
    /\ thresholds' = ValidatedThresholds(config)
    /\ num_services' = config.num_services
    /\ UNCHANGED <<config, sn_board, sn_now, snapshot>>
    /\ UNCHANGED NotSnapshot

ThresholdsNext == Construct

--------------------------------------------------------------------------
(* Properties of the threshold construction *)

\* C16: once constructed, the thresholds are the configured triple (for an
\* old-format config: single delay, multiple delay, 3, with 15 and 10 for a
\* missing key) when it satisfies severe >= major >= minor >= 1, and
\* (15, 10, 3) otherwise; so severe >= major >= minor >= 1 always holds.
C16_ThresholdsAllOrNothing ==
    thresholds # NotConstructed =>
        LET c == IF "severe_delay_threshold" \in DOMAIN config
                 THEN [severe |-> config.severe_delay_threshold,
                       major |-> config.major_delay_threshold,
                       minor |-> config.minor_delay_threshold]
                 ELSE [severe |-> IF "disruption_single_delay" \in DOMAIN config
                                  THEN config.disruption_single_delay ELSE 15,
                       major |-> IF "disruption_multiple_delay" \in DOMAIN config
                                 THEN config.disruption_multiple_delay ELSE 10,
                       minor |-> 3]
        IN /\ (c.severe >= c.major /\ c.major >= c.minor /\ c.minor >= 1)
                => thresholds = c
           /\ ~(c.severe >= c.major /\ c.major >= c.minor /\ c.minor >= 1)
                => thresholds = [severe |-> 15, major |-> 10, minor |-> 3]
           /\ thresholds.severe >= thresholds.major
           /\ thresholds.major >= thresholds.minor
           /\ thresholds.minor >= 1

\* configured (15, 3, 10): major below minor, all three reset to the defaults
C16_Witness ==
    /\ "severe_delay_threshold" \in DOMAIN config
    /\ config.severe_delay_threshold = 15
    /\ config.major_delay_threshold = 3
    /\ config.minor_delay_threshold = 10
    /\ thresholds = [severe |-> 15, major |-> 10, minor |-> 3]

--------------------------------------------------------------------------
(* Strings and clock times. A Python str is a sequence of one-character   *)
(* strings, "" is << >>.                                                   *)

Digits == <<"0", "1", "2", "3", "4", "5", "6", "7", "8", "9">>
IsDigit(c) == \E i \in 1 .. 10 : Digits[i] = c
DigitValue(c) == (CHOOSE i \in 1 .. 10 : Digits[i] = c) - 1
AllDigits(str) == \A i \in 1 .. Len(str) : IsDigit(str[i])

\* c in str
Contains(str, c) == \E i \in 1 .. Len(str) : str[i] = c

\* str.lower() of ASCII text
UpperLetters == <<"A", "B", "C", "D", "E", "F", "G", "H", "I", "J", "K", "L", "M",
                 "N", "O", "P", "Q", "R", "S", "T", "U", "V", "W", "X", "Y", "Z">>
LowerLetters == <<"a", "b", "c", "d", "e", "f", "g", "h", "i", "j", "k", "l", "m",
                 "n", "o", "p", "q", "r", "s", "t", "u", "v", "w", "x", "y", "z">>
LowerChar(c) ==
    IF \E i \in 1 .. 26 : UpperLetters[i] = c
    THEN LowerLetters[CHOOSE i \in 1 .. 26 : UpperLetters[i] = c]
    ELSE c
Lower(str) == [i \in 1 .. Len(str) |-> LowerChar(str[i])]

\* None where a str is expected
NoneStr == <<"None">>

\* int() of a field of one or two digits
NumberValue(str) ==
    IF Len(str) = 1 THEN DigitValue(str[1])
    ELSE 10 * DigitValue(str[1]) + DigitValue(str[2])

\* _TIME_FORMAT_RE.match(str): ^\d{2}:\d{2}$
MatchesTimeFormat(str) ==
    /\ Len(str) = 5
    /\ IsDigit(str[1]) /\ IsDigit(str[2])
    /\ str[3] = ":"
    /\ IsDigit(str[4]) /\ IsDigit(str[5])

ValueError == -1

\* datetime.strptime(f"2000-01-01 {str}", "%Y-%m-%d %H:%M"), as minutes since
\* midnight: %H is one or two digits up to 23, %M one or two digits up to 59,
\* and nothing may follow; ValueError for anything else
StrpTime(str) ==
    LET colon == IF Len(str) >= 2 /\ str[2] = ":" THEN 2
                 ELSE IF Len(str) >= 3 /\ str[3] = ":" THEN 3
                 ELSE 0
        hh == SubSeq(str, 1, colon - 1)
        mm == SubSeq(str, colon + 1, Len(str))
    IN IF colon = 0 \/ Len(mm) \notin {1, 2} \/ ~AllDigits(hh) \/ ~AllDigits(mm)
       THEN ValueError
       ELSE IF NumberValue(hh) > 23 \/ NumberValue(mm) > 59
            THEN ValueError
            ELSE 60 * NumberValue(hh) + NumberValue(mm)

\* now.strftime("%H:%M") for a time of day in minutes
StrfTime(t) ==
    LET hour == t \div 60
        minute == t % 60
    IN <<Digits[(hour \div 10) + 1], Digits[(hour % 10) + 1], ":",
         Digits[(minute \div 10) + 1], Digits[(minute % 10) + 1]>>

--------------------------------------------------------------------------
(* NationalRailAPI._parse_service: the fields the snapshot builder reads *)

STATUS_ON_TIME == "on_time"
STATUS_DELAYED == "delayed"
STATUS_CANCELLED == "cancelled"

ON_TIME_TEXT == <<"O", "n", " ", "t", "i", "m", "e">>
CANCELLED_TEXT == <<"c", "a", "n", "c", "e", "l", "l", "e", "d">>
CANCELED_TEXT == <<"c", "a", "n", "c", "e", "l", "e", "d">>

\* service.get(key, default)
ServiceGet(service, key, default) ==
    IF key \in DOMAIN service THEN service[key] ELSE default

\* IsCancelled that compares the text as written.
IsCancelled_CaseSensitive(etd) == etd \in {CANCELLED_TEXT, CANCELED_TEXT}

\* etd.lower() in ["cancelled", "canceled"] (line 282)
IsCancelled(etd) == Lower(etd) \in {CANCELLED_TEXT, CANCELED_TEXT}

\* not is_cancelled and etd and etd != "On time" (line 289)
IsDelayed(etd) == ~IsCancelled(etd) /\ etd # <<>> /\ etd # ON_TIME_TEXT

\* DelayMinutes that differences the two times of day as they are.
DelayMinutes_NoRollover(std, etd) ==
    LET std_time == StrpTime(std)
        etd_time == StrpTime(etd)
    IN IF Contains(etd, ":") /\ Contains(std, ":")
          /\ std_time # ValueError /\ etd_time # ValueError
       THEN etd_time - std_time
       ELSE 0

\* the delay of a delayed service (lines 293-306): the difference of the two
\* parsed times, a day added to an etd earlier than std; 0 when a field has
\* no colon or strptime raises ValueError
DelayMinutes(std, etd) ==
    LET std_time == StrpTime(std)
        etd_time == StrpTime(etd)
    IN IF Contains(etd, ":") /\ Contains(std, ":")
          /\ std_time # ValueError /\ etd_time # ValueError
       THEN (IF etd_time < std_time THEN etd_time + 24 * 60 ELSE etd_time) - std_time
       ELSE 0

\* the statements of the try block that raise on the fields modelled:
\* etd.lower() of a None etd (line 282), ":" in std of a None std (line 293)
ParseRaises(service) ==
    \/ service.etd = NoneStr
    \/ /\ service.std = NoneStr
       /\ IsDelayed(service.etd)
       /\ Contains(service.etd, ":")

\* _parse_service returned None (lines 356-358)
ParsedNone == [status |-> "None"]

\* one parsed service (lines 273-358): the departure fields, the status and
\* the reasons
ParseService(service) ==
    IF ParseRaises(service) THEN ParsedNone
    ELSE LET std == service.std
             etd == service.etd
             is_cancelled == IsCancelled(etd)
             is_delayed == IsDelayed(etd)
             delay_reason == ServiceGet(service, "delayReason", NoneStr)
             cancel_reason == ServiceGet(service, "cancelReason", delay_reason)
         IN [scheduled_departure |-> std,
             expected_departure |-> IF is_delayed THEN etd ELSE std,
             delay_minutes |-> IF is_delayed THEN DelayMinutes(std, etd) ELSE 0,
             status |-> IF is_cancelled THEN STATUS_CANCELLED
                        ELSE IF is_delayed THEN STATUS_DELAYED ELSE STATUS_ON_TIME,
             is_cancelled |-> is_cancelled,
             cancellation_reason |-> IF is_cancelled THEN cancel_reason ELSE NoneStr,
             delay_reason |-> IF ~is_cancelled THEN delay_reason ELSE NoneStr]

\* _parse_service applied to every entry, None included
ParseEach(raw) == [i \in 1 .. Len(raw) |-> ParseService(raw[i])]

\* ParseDepartureBoard that appends whatever _parse_service returned.
ParseDepartureBoard_KeepNone(raw) == ParseEach(raw)

\* _parse_departure_board (lines 250-254): the parsed services in the raw
\* order, the entries that gave None left out
ParseDepartureBoard(raw) ==
    SelectSeq(ParseEach(raw), LAMBDA parsed_service : parsed_service # ParsedNone)

\* the reason texts tried
REASON_FOG == <<"f", "o", "g">>
REASON_ICE == <<"i", "c", "e">>
REASON_SIGNAL == <<"s", "i", "g", "n", "a", "l">>

\* the raw services a board can list
RawServices ==
    { [std |-> <<"0", "8", ":", "3", "3">>, etd |-> ON_TIME_TEXT],
      [std |-> <<"0", "8", ":", "3", "4">>, etd |-> ON_TIME_TEXT],
      [std |-> <<"0", "8", ":", "3", "0">>, etd |-> <<"C", "a", "n", "c", "e", "l", "l", "e", "d">>,
       cancelReason |-> REASON_ICE],
      [std |-> <<"0", "8", ":", "3", "0">>, etd |-> <<"0", "8", ":", "4", "0">>,
       delayReason |-> REASON_FOG],
      [std |-> <<"0", "8", ":", "3", "5">>, etd |-> <<"0", "8", ":", "3", "8">>,
       delayReason |-> REASON_FOG],
      [std |-> <<"2", "3", ":", "5", "0">>, etd |-> <<"0", "0", ":", "0", "1">>],
      [std |-> <<"2", "3", ":", "5", "8">>, etd |-> ON_TIME_TEXT],
      [std |-> <<"0", "8", ":", "3", "0">>, etd |-> <<"D", "e", "l", "a", "y", "e", "d">>,
       delayReason |-> REASON_SIGNAL],
      [std |-> <<>>, etd |-> ON_TIME_TEXT],
      [std |-> <<"0", "8", ":", "3", "0">>, etd |-> <<"2", "5", ":", "9", "9">>] }

MaxBoard == 3          \* services on a board
MaxNumServices == 3    \* configured num_services

Boards == {ParseDepartureBoard(raw) : raw \in SeqsUpTo(RawServices, MaxBoard)}

\* the times of day a refresh is tried at
SnapshotNows == {1, 8 * 60 + 36, 11 * 60 + 57, 11 * 60 + 58,
                 20 * 60 + 34, 20 * 60 + 35, 23 * 60 + 59}

\* the stored thresholds are tried late in the evening, when no service of
\* RawServices with a time has departed
NowsTried(cfg) ==
    IF "severe_delay_threshold" \in DOMAIN cfg THEN {23 * 60 + 59} ELSE SnapshotNows

\* the configs tried: every num_services with no stored thresholds (old
\* format, the defaults apply), and the stored thresholds (11, 10, 4)
SnapshotConfigs ==
    [num_services : 1 .. MaxNumServices]
    \cup [num_services : {MaxNumServices}, severe_delay_threshold : {11},
          major_delay_threshold : {10}, minor_delay_threshold : {4}]

--------------------------------------------------------------------------
(* NationalRailDataUpdateCoordinator._parse_data *)

STATUS_NORMAL == "Normal"
STATUS_MINOR_DELAYS == "Minor Delays"
STATUS_MAJOR_DELAYS == "Major Delays"
STATUS_SEVERE_DISRUPTION == "Severe Disruption"
STATUS_CRITICAL == "Critical"

\* next_train = None
NoService == [status |-> "None"]

NoSnapshot == [built |-> FALSE]

\* services[:n]
Slice(services, n) == SubSeq(services, 1, IF Len(services) < n THEN Len(services) ELSE n)

\* KeepService with a grace period that excludes the boundary.
KeepService_ExclusiveGrace(service, current_time_str) ==
    IF service.is_cancelled THEN TRUE
    ELSE LET departure_time == IF service.expected_departure # <<>>
                               THEN service.expected_departure
                               ELSE service.scheduled_departure
         IN IF departure_time = <<>> \/ ~MatchesTimeFormat(departure_time) THEN TRUE
            ELSE LET current_dt == StrpTime(current_time_str)
                     departure_dt == StrpTime(departure_time)
                 IN IF current_dt = ValueError \/ departure_dt = ValueError THEN TRUE
                    ELSE LET diff == (departure_dt - current_dt) * 60
                             time_diff_seconds ==
                                 IF diff < -12 * 3600 THEN diff + 24 * 3600
                                 ELSE IF diff > 12 * 3600 THEN diff - 24 * 3600
                                 ELSE diff
                         IN time_diff_seconds > -120

\* KeepService that drops a service whose time strptime rejects.
KeepService_FailClosed(service, current_time_str) ==
    IF service.is_cancelled THEN TRUE
    ELSE LET departure_time == IF service.expected_departure # <<>>
                               THEN service.expected_departure
                               ELSE service.scheduled_departure
         IN IF departure_time = <<>> \/ ~MatchesTimeFormat(departure_time) THEN TRUE
            ELSE LET current_dt == StrpTime(current_time_str)
                     departure_dt == StrpTime(departure_time)
                 IN IF current_dt = ValueError \/ departure_dt = ValueError THEN FALSE
                    ELSE LET diff == (departure_dt - current_dt) * 60
                             time_diff_seconds ==
                                 IF diff < -12 * 3600 THEN diff + 24 * 3600
                                 ELSE IF diff > 12 * 3600 THEN diff - 24 * 3600
                                 ELSE diff
                         IN time_diff_seconds >= -120

\* the test of the loop of _filter_departed_trains: TRUE iff service is appended
KeepService(service, current_time_str) ==
    IF service.is_cancelled THEN TRUE
    ELSE LET departure_time == IF service.expected_departure # <<>>
                               THEN service.expected_departure
                               ELSE service.scheduled_departure
         IN IF departure_time = <<>> \/ ~MatchesTimeFormat(departure_time) THEN TRUE
            ELSE LET current_dt == StrpTime(current_time_str)
                     departure_dt == StrpTime(departure_time)
                 IN IF current_dt = ValueError \/ departure_dt = ValueError THEN TRUE
                    ELSE LET diff == (departure_dt - current_dt) * 60
                             time_diff_seconds ==
                                 IF diff < -12 * 3600 THEN diff + 24 * 3600
                                 ELSE IF diff > 12 * 3600 THEN diff - 24 * 3600
                                 ELSE diff
                         IN time_diff_seconds >= -120

\* _filter_departed_trains at time of day now
FilterDepartedTrains(services, now) ==
    IF services = <<>> THEN services
    ELSE SelectSeq(services, LAMBDA service : KeepService(service, StrfTime(now)))

\* max(iterable, default=0)
MaxOf(S) == IF S = {} THEN 0 ELSE CHOOSE m \in S : \A x \in S : x <= m

\* CalculateOverallStatus whose major boundary is exclusive.
CalculateOverallStatus_ExclusiveMajor(services, th) ==
    IF services = <<>> THEN STATUS_NORMAL
    ELSE IF \E i \in 1 .. Len(services) : services[i].is_cancelled THEN STATUS_CRITICAL
    ELSE LET max_delay == MaxOf({services[i].delay_minutes : i \in
                                   {j \in 1 .. Len(services) : ~services[j].is_cancelled}})
         IN IF max_delay >= th.severe THEN STATUS_SEVERE_DISRUPTION
            ELSE IF max_delay > th.major THEN STATUS_MAJOR_DELAYS
            ELSE IF max_delay >= th.minor THEN STATUS_MINOR_DELAYS
            ELSE STATUS_NORMAL

\* _calculate_overall_status
CalculateOverallStatus(services, th) ==
    IF services = <<>> THEN STATUS_NORMAL
    ELSE IF \E i \in 1 .. Len(services) : services[i].is_cancelled THEN STATUS_CRITICAL
    ELSE LET max_delay == MaxOf({services[i].delay_minutes : i \in
                                   {j \in 1 .. Len(services) : ~services[j].is_cancelled}})
         IN IF max_delay >= th.severe THEN STATUS_SEVERE_DISRUPTION
            ELSE IF max_delay >= th.major THEN STATUS_MAJOR_DELAYS
            ELSE IF max_delay >= th.minor THEN STATUS_MINOR_DELAYS
            ELSE STATUS_NORMAL

\* CountStatus that counts a delayed service as on time too.
CountStatus_DelayedOnTime(services, status) ==
    Cardinality({i \in 1 .. Len(services) :
                   \/ services[i].status = status
                   \/ (status = STATUS_ON_TIME /\ services[i].status = STATUS_DELAYED)})

\* sum(1 for s in services if s.get("status") == status)
CountStatus(services, status) ==
    Cardinality({i \in 1 .. Len(services) : services[i].status = status})

\* NextTrain that takes the first service, cancelled or not.
NextTrain_First(services) ==
    IF services = <<>> THEN NoService ELSE services[1]

\* the first service that is not cancelled, or None (lines 346-350)
NextTrain(services) ==
    LET live == {i \in 1 .. Len(services) : ~services[i].is_cancelled}
    IN IF live = {} THEN NoService
       ELSE services[CHOOSE i \in live : \A j \in live : i <= j]

\* reason in disruption_reasons
InList(list, x) == \E i \in 1 .. Len(list) : list[i] = x

\* the reason the loop of _collect_delay_info reads from one service (lines
\* 387-401): the cancellation_reason of a cancelled service, the delay_reason
\* of a service with delay_minutes > 0, none for any other service
ReasonRead(service) ==
    IF service.is_cancelled THEN service.cancellation_reason
    ELSE IF service.delay_minutes > 0 THEN service.delay_reason
    ELSE NoneStr

\* disruption_reasons after the loop has run over services (lines 384-401)
RECURSIVE CollectReasons(_, _)
CollectReasons(services, disruption_reasons) ==
    IF services = <<>> THEN disruption_reasons
    ELSE LET reason == ReasonRead(Head(services))
         IN CollectReasons(Tail(services),
                IF reason # NoneStr /\ reason # <<>> /\ ~InList(disruption_reasons, reason)
                THEN Append(disruption_reasons, reason)
                ELSE disruption_reasons)

\* _collect_delay_info
CollectDelayInfo(services) ==
    [max_delay_minutes |->
        MaxOf({services[i].delay_minutes : i \in
                 {j \in 1 .. Len(services) :
                     ~services[j].is_cancelled /\ services[j].delay_minutes > 0}}),
     disruption_reasons |-> CollectReasons(services, <<>>)]

\* ParseDataSnapshot that filters the whole board and limits afterwards.
ParseDataSnapshot_LimitAfterFilter(board, now, n, th) ==
    LET services == Slice(FilterDepartedTrains(board, now), n)
        delay_info == CollectDelayInfo(services)
    IN [built |-> TRUE,
        services_tracked |-> Len(services),
        total_services_found |-> Len(board),
        services |-> services,
        on_time_count |-> CountStatus(services, STATUS_ON_TIME),
        delayed_count |-> CountStatus(services, STATUS_DELAYED),
        cancelled_count |-> CountStatus(services, STATUS_CANCELLED),
        next_train |-> NextTrain(services),
        overall_status |-> CalculateOverallStatus(services, th),
        max_delay_minutes |-> delay_info.max_delay_minutes,
        disruption_reasons |-> delay_info.disruption_reasons]

\* _parse_data for data["services"] = board at time of day now
ParseDataSnapshot(board, now, n, th) ==
    LET services == FilterDepartedTrains(Slice(board, n), now)
        delay_info == CollectDelayInfo(services)
    IN [built |-> TRUE,
        services_tracked |-> Len(services),
        total_services_found |-> Len(board),
        services |-> services,
        on_time_count |-> CountStatus(services, STATUS_ON_TIME),
        delayed_count |-> CountStatus(services, STATUS_DELAYED),
        cancelled_count |-> CountStatus(services, STATUS_CANCELLED),
        next_train |-> NextTrain(services),
        overall_status |-> CalculateOverallStatus(services, th),
        max_delay_minutes |-> delay_info.max_delay_minutes,
        disruption_reasons |-> delay_info.disruption_reasons]

\* a successful refresh builds the snapshot of the fetched board
BuildSnapshot ==
    /\ thresholds # NotConstructed
    /\ snapshot = NoSnapshot
    /\ snapshot' = ParseDataSnapshot(sn_board, sn_now, num_services, thresholds)
    /\ UNCHANGED <<config, thresholds, num_services, sn_board, sn_now>>
    /\ UNCHANGED NotSnapshot

SnapshotNext == BuildSnapshot

--------------------------------------------------------------------------
(* Properties of the snapshot builder *)

\* the services the departed-train filter was given: the first num_services
FilterInput == Slice(sn_board, num_services)

\* the departure time the filter looks at: expected, else scheduled
DepartureOf(service) ==
    IF service.expected_departure # <<>> THEN service.expected_departure
    ELSE service.scheduled_departure

\* str is a time of day written HH:MM
ValidClock(str) ==
    /\ Len(str) = 5 /\ str[3] = ":"
    /\ \A i \in {1, 2, 4, 5} : IsDigit(str[i])
    /\ 10 * DigitValue(str[1]) + DigitValue(str[2]) <= 23
    /\ 10 * DigitValue(str[4]) + DigitValue(str[5]) <= 59

ClockMinutes(str) ==
    60 * (10 * DigitValue(str[1]) + DigitValue(str[2]))
        + 10 * DigitValue(str[4]) + DigitValue(str[5])

\* departure - now in minutes, brought into -12h .. +12h
NormalisedGap(departure, now) ==
    LET gap == departure - now
    IN IF gap < -720 THEN gap + 1440 ELSE IF gap > 720 THEN gap - 1440 ELSE gap

Occurrences(seq, x) == Cardinality({i \in 1 .. Len(seq) : seq[i] = x})

\* every copy of the service is in the snapshot / none is
AllKept(service) ==
    Occurrences(snapshot.services, service) = Occurrences(FilterInput, service)
NoneKept(service) == Occurrences(snapshot.services, service) = 0

\* a is b with some elements left out
RECURSIVE IsSubseq(_, _)
IsSubseq(a, b) ==
    IF a = <<>> THEN TRUE
    ELSE IF b = <<>> THEN FALSE
    ELSE IF Head(a) = Head(b) THEN IsSubseq(Tail(a), Tail(b))
    ELSE IsSubseq(a, Tail(b))

C17_DepartedFilterGrace ==
    snapshot.built =>
        \A i \in 1 .. Len(FilterInput) :
          LET service == FilterInput[i]
              departure == DepartureOf(service)
          IN (~service.is_cancelled /\ ValidClock(departure)) =>
               /\ IF NormalisedGap(ClockMinutes(departure), sn_now) >= -2
                  THEN AllKept(service) ELSE NoneKept(service)
               /\ (sn_now = 8 * 60 + 36 /\ departure = <<"0", "8", ":", "3", "4">>)
                     => AllKept(service)
               /\ (sn_now = 8 * 60 + 36 /\ departure = <<"0", "8", ":", "3", "3">>)
                     => NoneKept(service)
               /\ (sn_now = 23 * 60 + 59 /\ departure = <<"0", "0", ":", "0", "1">>)
                     => AllKept(service)
               /\ (sn_now = 1 /\ departure = <<"2", "3", ":", "5", "8">>)
                     => NoneKept(service)

\* at 08:36 the board had a 08:33 and a 08:34 departure: only the 08:34 is left
C17_Witness ==
    /\ snapshot.built /\ sn_now = 8 * 60 + 36
    /\ \E i, j \in 1 .. Len(FilterInput) :
          /\ ~FilterInput[i].is_cancelled /\ ~FilterInput[j].is_cancelled
          /\ DepartureOf(FilterInput[i]) = <<"0", "8", ":", "3", "3">>
          /\ DepartureOf(FilterInput[j]) = <<"0", "8", ":", "3", "4">>
          /\ snapshot.services = <<FilterInput[j]>>

\* C18: the filter keeps every cancelled service and every service whose
\* departure time is missing or is not a valid HH:MM time, and its result is
\* its input with some services left out: same order, same records.
C18_FilterFailsOpen ==
    snapshot.built =>
        /\ IsSubseq(snapshot.services, FilterInput)
        /\ \A i \in 1 .. Len(FilterInput) :
              (FilterInput[i].is_cancelled \/ ~ValidClock(DepartureOf(FilterInput[i])))
                 => AllKept(FilterInput[i])

\* a cancelled service long gone and a service with an unreadable time are
\* kept while a departed service is dropped
C18_Witness ==
    /\ snapshot.built
    /\ Len(snapshot.services) = 2 /\ Len(FilterInput) = 3
    /\ \E i \in 1 .. 2 :
          /\ snapshot.services[i].is_cancelled
          /\ NormalisedGap(ClockMinutes(DepartureOf(snapshot.services[i])), sn_now) < -2
    /\ \E i \in 1 .. 2 :
          /\ ~snapshot.services[i].is_cancelled
          /\ MatchesTimeFormat(DepartureOf(snapshot.services[i]))
          /\ ~ValidClock(DepartureOf(snapshot.services[i]))

\* C19: services_tracked is the length of the snapshot's service list, at
\* most num_services and at most total_services_found, and the list is made
\* of services among the first num_services of the board, in their order.
C19_CountsAndLimit ==
    snapshot.built =>
        /\ snapshot.services_tracked = Len(snapshot.services)
        /\ snapshot.services_tracked <= num_services
        /\ snapshot.total_services_found >= snapshot.services_tracked
        /\ IsSubseq(snapshot.services, Slice(sn_board, num_services))

\* a service among the first num_services had departed; the next service of
\* the board, cancelled and so never filtered, did not take its place
C19_Witness ==
    /\ snapshot.built
    /\ Len(sn_board) > num_services
    /\ sn_board[num_services + 1].is_cancelled
    /\ snapshot.services_tracked < num_services
    /\ snapshot.total_services_found > num_services
    /\ \A i \in 1 .. Len(snapshot.services) : ~snapshot.services[i].is_cancelled

\* C20: next_train is the first service of the snapshot's list that is not
\* cancelled, and None iff the list has no such service.
C20_NextTrainFirstLive ==
    snapshot.built =>
        LET svcs == snapshot.services
            live == {i \in 1 .. Len(svcs) : ~svcs[i].is_cancelled}
        IN /\ (snapshot.next_train = NoService) <=> (live = {})
           /\ live # {} =>
                \E i \in live : /\ snapshot.next_train = svcs[i]
                                /\ \A j \in 1 .. (i - 1) : svcs[j].is_cancelled
           /\ snapshot.next_train # NoService =>
                /\ ~snapshot.next_train.is_cancelled
                /\ \E i \in 1 .. Len(svcs) : svcs[i] = snapshot.next_train

\* the list starts with a cancelled service: next_train is the second one
C20_Witness ==
    /\ snapshot.built /\ Len(snapshot.services) >= 2
    /\ snapshot.services[1].is_cancelled
    /\ ~snapshot.services[2].is_cancelled
    /\ snapshot.next_train = snapshot.services[2]

\* the reasons a service carries that are texts: not None, not ""
ReasonsOf(service) ==
    {service.cancellation_reason, service.delay_reason} \ {NoneStr, <<>>}

\* C21: disruption_reasons of a snapshot holds every non-empty
\* cancellation_reason and every non-empty delay_reason of every service of
\* the snapshot's list, each exactly once, and nothing else; max_delay_minutes
\* is the largest delay_minutes of the services that are not cancelled, 0 if
\* there is none.
C21_DisruptionReasons ==
    snapshot.built =>
        LET services == snapshot.services
            reasons == snapshot.disruption_reasons
        IN /\ {reasons[i] : i \in 1 .. Len(reasons)}
                = UNION {ReasonsOf(services[i]) : i \in 1 .. Len(services)}
           /\ \A i, j \in 1 .. Len(reasons) : reasons[i] = reasons[j] => i = j
           /\ snapshot.max_delay_minutes
                = MaxOf({services[i].delay_minutes : i \in
                           {j \in 1 .. Len(services) : ~services[j].is_cancelled}})

\* DisruptionSensor.is_on for coordinator.data = snap
IsOn(snap) ==
    IF ~snap.built THEN FALSE
    ELSE snap.overall_status # "Normal"

\* C34: the disruption binary sensor is on exactly when at least one service
\* of the current snapshot has status delayed or cancelled, and off exactly
\* when all of them are on time.
C34_DisruptionSensorAnyDelay ==
    snapshot.built =>
        (IsOn(snapshot)
           <=> \E i \in 1 .. Len(snapshot.services) :
                  snapshot.services[i].status \in {STATUS_DELAYED, STATUS_CANCELLED})

\* C40: in every snapshot built from parser output the three counts add up
\* to services_tracked, cancelled_count is the number of services with
\* is_cancelled true, and overall_status is Critical exactly when
\* cancelled_count is positive.
C40_CountsPartition ==
    snapshot.built =>
        LET services == snapshot.services
        IN /\ snapshot.on_time_count + snapshot.delayed_count + snapshot.cancelled_count
                = snapshot.services_tracked
           /\ snapshot.cancelled_count
                = Cardinality({i \in 1 .. Len(services) : services[i].is_cancelled})
           /\ (snapshot.overall_status = STATUS_CRITICAL) <=> (snapshot.cancelled_count > 0)

\* a snapshot of one on-time, one delayed and one cancelled service
C40_Witness ==
    /\ snapshot.built /\ snapshot.services_tracked = 3
    /\ snapshot.on_time_count = 1 /\ snapshot.delayed_count = 1
    /\ snapshot.cancelled_count = 1
    /\ snapshot.overall_status = STATUS_CRITICAL

--------------------------------------------------------------------------
(* NationalRailAPI._parse_departure_board on the raw entries of a response *)

\* the std and etd texts tried
ParserStds ==
    { <<"0", "8", ":", "3", "5">>, <<"2", "3", ":", "5", "0">>, <<"0", "8", ":", "5", "0">>, <<"8", ":", "3", "5">>, <<>>, NoneStr }

ParserEtds ==
    { ON_TIME_TEXT, <<>>, NoneStr,
      <<"C", "a", "n", "c", "e", "l", "l", "e", "d">>,
      <<"C", "A", "N", "C", "E", "L", "L", "E", "D">>,
      <<"c", "a", "n", "c", "e", "l", "e", "d">>,
      <<"C", "a", "N", "c", "E", "l", "E", "d">>,
      <<"D", "e", "l", "a", "y", "e", "d">>,
      <<"D", "e", "l", "a", "y", "e", "d", ":", " ", "5">>,
      <<"a", "b", "c", ":", "d", "e">>,
      <<"0", "9", ":", "0", "5", ":", "3", "0">>,
      <<"9", ":", "0", "5">>, <<"0", "9", ":", "0", "5">>, <<"0", "0", ":", "0", "5">>,
      <<"0", "8", ":", "3", "5">>, <<"2", "3", ":", "5", "0">>, <<"2", "5", ":", "9", "9">> }

\* a raw entry: std and etd, with or without cancelReason and delayReason
RawEntries ==
    [std : ParserStds, etd : ParserEtds]
    \cup [std : ParserStds, etd : ParserEtds, delayReason : {REASON_FOG}]
    \cup [std : ParserStds, etd : ParserEtds, cancelReason : {REASON_ICE}]
    \cup [std : ParserStds, etd : ParserEtds,
          cancelReason : {REASON_ICE, <<>>}, delayReason : {REASON_FOG}]

\* the entries the longer responses are made of: two of them do not parse
ListedEntries ==
    { [std |-> <<"0", "8", ":", "3", "5">>, etd |-> ON_TIME_TEXT],
      [std |-> <<"0", "8", ":", "3", "5">>, etd |-> <<"0", "9", ":", "0", "5">>],
      [std |-> <<"0", "8", ":", "5", "0">>, etd |-> <<"C", "a", "n", "c", "e", "l", "l", "e", "d">>],
      [std |-> <<"0", "8", ":", "3", "5">>, etd |-> NoneStr],
      [std |-> NoneStr, etd |-> <<"0", "9", ":", "0", "5">>] }

MaxEntries == 3        \* raw entries of a longer response

RawResponses == {<<entry>> : entry \in RawEntries} \cup SeqsUpTo(ListedEntries, MaxEntries)

NoBoard == [parsed |-> FALSE]

\* a parsed record read as a raw entry: std its scheduled_departure, etd its
\* expected_departure
AsRawEntry(record) ==
    [std |-> record.scheduled_departure, etd |-> record.expected_departure]

\* _parse_departure_board(data): the "services" of the returned dict
ParseBoard ==
    /\ ~pa_board.parsed
    /\ pa_board' = [parsed |-> TRUE, services |-> ParseDepartureBoard(pa_raw)]
    /\ UNCHANGED <<pa_raw, pa_again>>
    /\ UNCHANGED NotParser

\* _parse_service on every returned record, read as a raw entry
ParseAgain ==
    /\ pa_board.parsed
    /\ ~pa_again.parsed
    /\ pa_again' = [parsed |-> TRUE,
                    services |-> ParseEach([i \in 1 .. Len(pa_board.services) |->
                                               AsRawEntry(pa_board.services[i])])]
    /\ UNCHANGED <<pa_raw, pa_board>>
    /\ UNCHANGED NotParser

ParserInit ==
    /\ pa_raw \in RawResponses
    /\ pa_board = NoBoard
    /\ pa_again = NoBoard

ParserNext == ParseBoard \/ ParseAgain

--------------------------------------------------------------------------
(* Properties of the parser *)

\* every raw entry gave a record: record i is the parse of entry i
AllParsed == pa_board.parsed /\ Len(pa_board.services) = Len(pa_raw)

IsText(str) == str # NoneStr

\* str is text, letter for letter, in any case
EqualsIgnoringCase(str, text) ==
    /\ Len(str) = Len(text)
    /\ \A i \in 1 .. Len(str) :
          \/ str[i] = text[i]
          \/ \E k \in 1 .. 26 : LowerLetters[k] = text[i] /\ UpperLetters[k] = str[i]

SaysCancelled(etd) ==
    EqualsIgnoringCase(etd, CANCELLED_TEXT) \/ EqualsIgnoringCase(etd, CANCELED_TEXT)

\* C22: for a raw service that is not cancelled and whose std and etd are
\* both valid HH:MM times, delay_minutes is (etd - std) mod 1440 in whole
\* minutes, between 0 and 1439, the status is delayed and expected_departure
\* is etd.
C22_DelayModuloDay ==
    AllParsed =>
        \A i \in 1 .. Len(pa_raw) :
            LET entry == pa_raw[i]
                record == pa_board.services[i]
            IN (IsText(entry.std) /\ IsText(entry.etd)
                /\ ValidClock(entry.std) /\ ValidClock(entry.etd)) =>
                   /\ record.delay_minutes
                        = (ClockMinutes(entry.etd) - ClockMinutes(entry.std)) % 1440
                   /\ record.delay_minutes \in 0 .. 1439
                   /\ record.status = STATUS_DELAYED
                   /\ record.expected_departure = entry.etd

\* std 23:50 with etd 00:05 parsed to a delay of 15 minutes
C22_Witness ==
    /\ AllParsed /\ Len(pa_raw) = 1
    /\ pa_raw[1].std = <<"2", "3", ":", "5", "0">>
    /\ pa_raw[1].etd = <<"0", "0", ":", "0", "5">>
    /\ pa_board.services[1].delay_minutes = 15

\* C23: delay_minutes is computed only when both std and etd match the strict
\* two-digit HH:MM pattern: for every pair of texts in which a field does
\* not, _parse_service returns a record with delay_minutes = 0.
C23_StrictPatternOnly ==
    pa_board.parsed =>
        \A i \in 1 .. Len(pa_raw) :
            LET entry == pa_raw[i]
            IN (IsText(entry.std) /\ IsText(entry.etd)
                /\ (~MatchesTimeFormat(entry.std) \/ ~MatchesTimeFormat(entry.etd))) =>
                   /\ AllParsed
                   /\ pa_board.services[i].delay_minutes = 0

\* C24: every record returned by _parse_service has a status that is one of
\* on_time, delayed, cancelled; is_cancelled is true iff etd is "cancelled"
\* or "canceled" in any case iff the status is cancelled; a cancelled record
\* has delay_minutes 0 and no delay_reason; a record that is not cancelled
\* has no cancellation_reason.
C24_RecordInvariants ==
    AllParsed =>
        \A i \in 1 .. Len(pa_raw) :
            LET etd == pa_raw[i].etd
                record == pa_board.services[i]
            IN /\ record.status \in {STATUS_ON_TIME, STATUS_DELAYED, STATUS_CANCELLED}
               /\ record.is_cancelled <=> SaysCancelled(etd)
               /\ record.is_cancelled <=> record.status = STATUS_CANCELLED
               /\ record.is_cancelled =>
                     record.delay_minutes = 0 /\ record.delay_reason = NoneStr
               /\ ~record.is_cancelled => record.cancellation_reason = NoneStr

\* an etd of CANCELLED in capitals with both reasons given parsed to a
\* cancelled record that keeps the cancelReason only
C24_Witness ==
    /\ AllParsed /\ Len(pa_raw) = 1
    /\ pa_raw[1].etd = <<"C", "A", "N", "C", "E", "L", "L", "E", "D">>
    /\ "delayReason" \in DOMAIN pa_raw[1]
    /\ pa_board.services[1].is_cancelled
    /\ pa_board.services[1].cancellation_reason = REASON_ICE
    /\ pa_board.services[1].delay_reason = NoneStr

\* C25: a raw entry whose parsing raises is dropped and does not fail the
\* board: _parse_departure_board returns the records of the other entries in
\* their original order.
C25_UnparseableDropped ==
    pa_board.parsed =>
        LET parseable == SelectSeq(pa_raw, LAMBDA entry : ~ParseRaises(entry))
        IN /\ Len(pa_board.services) = Len(parseable)
           /\ \A i \in 1 .. Len(parseable) :
                 /\ pa_board.services[i] # ParsedNone
                 /\ pa_board.services[i].scheduled_departure = parseable[i].std
                 /\ pa_board.services[i] = ParseService(parseable[i])

\* an entry with a null etd stood between two entries that parse; the two
\* records came back in that order
C25_Witness ==
    /\ pa_board.parsed /\ Len(pa_raw) = 3
    /\ pa_raw[2].etd = NoneStr
    /\ pa_raw[1].etd = ON_TIME_TEXT
    /\ pa_raw[3].etd = <<"C", "a", "n", "c", "e", "l", "l", "e", "d">>
    /\ Len(pa_board.services) = 2
    /\ pa_board.services[1].status = STATUS_ON_TIME
    /\ pa_board.services[2].status = STATUS_CANCELLED

\* C26: parsing a record the parser produced again, with std its
\* scheduled_departure and etd its expected_departure, gives the same status
\* and the same delay_minutes, for on-time, delayed and cancelled records.
C26_RoundTrip ==
    pa_again.parsed =>
        \A i \in 1 .. Len(pa_board.services) :
            /\ pa_again.services[i] # ParsedNone
            /\ pa_again.services[i].status = pa_board.services[i].status
            /\ pa_again.services[i].delay_minutes = pa_board.services[i].delay_minutes

--------------------------------------------------------------------------
(* NationalRailAPI.validate_station *)

\* the codes tried: None, "", and texts of two, three and four letters
StationCodes ==
    { NoneStr, <<>>, <<"P", "A">>, <<"P", "A", "D">>, <<"P", "A", "D", "D">> }

\* board.get("locationName") of a response body: "None" for a body without
\* the key
LocationNames == {"None", "", "London Paddington"}

NotValidated == [kind |-> "none"]

\* not crs_code or len(crs_code) != 3 (line 372)
BadCode(crs_code) == crs_code = NoneStr \/ crs_code = <<>> \/ Len(crs_code) # 3

\* ValidateOutcome that lets every exception of the request through.
ValidateOutcome_Propagate(result, location_name) ==
    IF result = "body"
    THEN IF Truthy(location_name)
         THEN [kind |-> "return", name |-> location_name, body_name |-> location_name]
         ELSE [kind |-> "raise", error |-> "InvalidStationError", body_name |-> location_name]
    ELSE [kind |-> "raise", error |-> result, body_name |-> "-"]

\* what validate_station gives for the outcome of its _request (lines
\* 375-400): the locationName of the body if it is truthy; AuthenticationError
\* and RateLimitError as raised; InvalidStationError for anything else
ValidateOutcome(result, location_name) ==
    IF result = "body"
    THEN IF Truthy(location_name)
         THEN [kind |-> "return", name |-> location_name, body_name |-> location_name]
         ELSE [kind |-> "raise", error |-> "InvalidStationError", body_name |-> location_name]
    ELSE IF result \in {"AuthenticationError", "RateLimitError"}
         THEN [kind |-> "raise", error |-> result, body_name |-> "-"]
         ELSE [kind |-> "raise", error |-> "InvalidStationError", body_name |-> "-"]

\* validate_station(crs_code) with a code that fails the test of line 372
ValidateReject ==
    /\ vs_result = NotValidated
    /\ BadCode(vs_code)
    /\ vs_result' = [kind |-> "raise", error |-> "InvalidStationError", body_name |-> "-"]
    /\ UNCHANGED vs_code
    /\ UNCHANGED rq_vars
    /\ UNCHANGED NotValidate

\* validate_station(crs_code) calls _request (line 377)
ValidateCall ==
    /\ vs_result = NotValidated
    /\ ~BadCode(vs_code)
    /\ rq_pc = "idle"
    /\ CallRequest

\* the _request of validate_station has returned or raised (lines 377-400)
ValidateReturn ==
    /\ vs_result = NotValidated
    /\ rq_pc = "done"
    /\ \E location_name \in LocationNames :
          vs_result' = ValidateOutcome(rq_result, location_name)
    /\ UNCHANGED vs_code
    /\ UNCHANGED rq_vars
    /\ UNCHANGED NotValidate

ValidateInit ==
    /\ vs_code \in StationCodes
    /\ vs_result = NotValidated

ValidateNext ==
    \/ ValidateReject
    \/ ValidateCall
    \/ \E status \in Statuses, d \in Durations : AttemptResponse(status, d)
    \/ \E kind \in TransportErrors, d \in Durations : AttemptTransportError(kind, d)
    \/ AttemptDeadline
    \/ SleepDone
    \/ SleepDeadline
    \/ ValidateReturn

--------------------------------------------------------------------------
(* Properties of validate_station *)

\* C30: validate_station with a code that is empty or not three long raises
\* InvalidStationError without any network request; otherwise it returns the
\* non-empty locationName of the response, or raises AuthenticationError or
\* RateLimitError as the request raised them, or InvalidStationError for any
\* other failure of the request and for a response without locationName; it
\* never raises the generic NationalRailAPIError and never returns an empty
\* name.
C30_ValidateStationOutcomes ==
    vs_result # NotValidated =>
        IF vs_code = NoneStr \/ Len(vs_code) # 3
        THEN /\ vs_result.kind = "raise"
             /\ vs_result.error = "InvalidStationError"
             /\ attempts = 0 /\ rq_pc = "idle"
        ELSE /\ rq_pc = "done"
             /\ vs_result.kind \in {"return", "raise"}
             /\ vs_result.kind = "return" =>
                   /\ rq_result = "body"
                   /\ vs_result.name = vs_result.body_name
                   /\ vs_result.name \notin {"", "None"}
             /\ vs_result.kind = "raise" =>
                   /\ vs_result.error \in {"AuthenticationError", "RateLimitError",
                                           "InvalidStationError"}
                   /\ vs_result.error \in {"AuthenticationError", "RateLimitError"}
                         => rq_result = vs_result.error
                   /\ vs_result.error = "InvalidStationError"
                         => \/ rq_result \in {"InvalidStationError", "NationalRailAPIError"}
                            \/ rq_result = "body" /\ vs_result.body_name \in {"", "None"}
             /\ rq_result \in {"AuthenticationError", "RateLimitError"}
                   => vs_result.kind = "raise" /\ vs_result.error = rq_result

\* a request that gave up after answers of 503 was reported as an invalid
\* station
C30_Witness ==
    /\ vs_result # NotValidated
    /\ Len(vs_code) = 3
    /\ rq_result = "NationalRailAPIError"
    /\ rq_last.out = [via |-> "response", status |-> 503]
    /\ vs_result.kind = "raise"
    /\ vs_result.error = "InvalidStationError"

--------------------------------------------------------------------------
(* NationalRailAPI.validate_api_key and NationalRailAPI.get_departure_board *)

Methods == {"validate_api_key", "get_departure_board"}

NotCalled == [kind |-> "none"]

\* ValidateApiKeyOutcome that lets the errors of the request through.
ValidateApiKeyOutcome_Propagate(result) ==
    IF result = "body" THEN [kind |-> "return", value |-> "True"]
    ELSE [kind |-> "raise", error |-> result]

\* what validate_api_key gives for the outcome of its _request (lines
\* 413-429): True, or AuthenticationError for every exception
ValidateApiKeyOutcome(result) ==
    IF result = "body" THEN [kind |-> "return", value |-> "True"]
    ELSE [kind |-> "raise", error |-> "AuthenticationError"]

\* what get_departure_board gives for the outcome of its _request (lines
\* 219-226): the parsed board, or the exception of the request as raised
GetDepartureBoardOutcome(result) ==
    IF result = "body" THEN [kind |-> "return", value |-> "board"]
    ELSE [kind |-> "raise", error |-> result]

\* the method calls _request (lines 220 and 420)
MethodCall ==
    /\ ca_result = NotCalled
    /\ rq_pc = "idle"
    /\ CallRequest

\* the _request of validate_api_key has returned or raised
ValidateApiKeyReturn ==
    /\ ca_method = "validate_api_key"
    /\ ca_result = NotCalled
    /\ rq_pc = "done"
    /\ ca_result' = ValidateApiKeyOutcome(rq_result)
    /\ UNCHANGED ca_method
    /\ UNCHANGED rq_vars
    /\ UNCHANGED NotCaller

\* the _request of get_departure_board has returned or raised
GetDepartureBoardReturn ==
    /\ ca_method = "get_departure_board"
    /\ ca_result = NotCalled
    /\ rq_pc = "done"
    /\ ca_result' = GetDepartureBoardOutcome(rq_result)
    /\ UNCHANGED ca_method
    /\ UNCHANGED rq_vars
    /\ UNCHANGED NotCaller

CallerInit ==
    /\ ca_method \in Methods
    /\ ca_result = NotCalled

CallerNext ==
    \/ MethodCall
    \/ \E status \in Statuses, d \in Durations : AttemptResponse(status, d)
    \/ \E kind \in TransportErrors, d \in Durations : AttemptTransportError(kind, d)
    \/ AttemptDeadline
    \/ SleepDone
    \/ SleepDeadline
    \/ ValidateApiKeyReturn
    \/ GetDepartureBoardReturn

--------------------------------------------------------------------------
(* Properties of the two callers *)

\* C31: validate_api_key returns True when the probe request succeeds and
\* raises AuthenticationError for every failure of the probe request (401 and
\* 403, but also 404, exhausted 429 or 5xx retries, timeout and network
\* error); it never returns False and never raises another error type.
C31_ValidateApiKeyOutcomes ==
    (ca_method = "validate_api_key" /\ ca_result # NotCalled) =>
        /\ rq_pc = "done"
        /\ rq_result = "body" =>
              ca_result.kind = "return" /\ ca_result.value = "True"
        /\ rq_result # "body" =>
              ca_result.kind = "raise" /\ ca_result.error = "AuthenticationError"

\* a probe that met a 404 was reported as an authentication failure
C31_Witness ==
    /\ ca_method = "validate_api_key"
    /\ rq_last.out = [via |-> "response", status |-> 404]
    /\ rq_result = "InvalidStationError"
    /\ ca_result # NotCalled
    /\ ca_result.kind = "raise"
    /\ ca_result.error = "AuthenticationError"

\* C32: get_departure_board raises InvalidStationError when the API answers
\* HTTP 400, as it does for HTTP 404.
C32_BadRequestInvalidStation ==
    (/\ ca_method = "get_departure_board"
     /\ ca_result # NotCalled
     /\ rq_last.out.via = "response"
     /\ rq_last.out.status \in {400, 404}) =>
        /\ ca_result.kind = "raise"
        /\ ca_result.error = "InvalidStationError"

--------------------------------------------------------------------------
\* Every part is constructed; a specification explores one part and holds
\* the others in one fixed constructed state.
CoordIdle == CoordInitAt(9 * 60, FALSE)
TrackerIdle == TrackerInitFor(1)
ParserIdle == pa_raw = <<>> /\ pa_board = NoBoard /\ pa_again = NoBoard
ValidateIdle == vs_code = <<>> /\ vs_result = NotValidated
CallerIdle == ca_method = "get_departure_board" /\ ca_result = NotCalled
MirrorIdle == MirrorInit
SnapshotIdle ==
    /\ config = [num_services |-> DEFAULT_NUM_SERVICES]
    /\ thresholds = ValidatedThresholds(config)
    /\ num_services = config.num_services
    /\ sn_board = <<>>
    /\ sn_now = 9 * 60
    /\ snapshot = NoSnapshot

InitRequest == RequestInit /\ CoordIdle /\ TrackerIdle /\ SnapshotIdle /\ ParserIdle /\ ValidateIdle
    /\ CallerIdle /\ MirrorIdle
InitCoord == RequestInit /\ CoordInit /\ TrackerIdle /\ SnapshotIdle /\ ParserIdle /\ ValidateIdle
    /\ CallerIdle /\ MirrorIdle
InitTracker == RequestInit /\ CoordIdle /\ TrackerInit /\ SnapshotIdle /\ ParserIdle /\ ValidateIdle
    /\ CallerIdle /\ MirrorIdle

\* a coordinator about to be constructed from any stored config
InitThresholds ==
    /\ RequestInit /\ CoordIdle /\ TrackerIdle /\ ParserIdle /\ ValidateIdle
    /\ CallerIdle /\ MirrorIdle
    /\ config \in Configs
    /\ thresholds = NotConstructed
    /\ num_services = 0
    /\ sn_board = <<>>
    /\ sn_now = 9 * 60
    /\ snapshot = NoSnapshot

SpecRequest == InitRequest /\ [][RequestNext]_vars

\* The event loop runs the call: a network attempt in progress ends (by a
\* response, an error raised by session.get, or the deadline of a timeout
\* block) and a sleep in progress ends (it returns or is cancelled).
EndAttempt ==
    \/ \E status \in Statuses, d \in Durations : AttemptResponse(status, d)
    \/ \E kind \in TransportErrors, d \in Durations : AttemptTransportError(kind, d)
    \/ AttemptDeadline

EndSleep == SleepDone \/ SleepDeadline

SpecRequestFair ==
    InitRequest /\ [][RequestNext]_vars /\ WF_vars(EndAttempt) /\ WF_vars(EndSleep)

SpecCoord == InitCoord /\ [][CoordNext]_vars

\* a coordinator about to be constructed at any hour
InitSchedule == RequestInit /\ ScheduleInit /\ TrackerIdle /\ SnapshotIdle /\ ParserIdle /\ ValidateIdle
    /\ CallerIdle /\ MirrorIdle

SpecSchedule == InitSchedule /\ [][ScheduleNext]_vars

\* the coordinator polled by the host's timer
InitTimer ==
    /\ RequestInit /\ TimerInit /\ TrackerIdle /\ SnapshotIdle /\ ParserIdle
    /\ ValidateIdle /\ CallerIdle /\ MirrorIdle

SpecTimer == InitTimer /\ [][TimerNext]_vars

SpecTracker == InitTracker /\ [][TrackerNext]_vars

\* a constructed coordinator, a fetched board and the time of the refresh
InitSnapshot ==
    /\ RequestInit /\ CoordIdle /\ TrackerIdle /\ ParserIdle /\ ValidateIdle
    /\ CallerIdle /\ MirrorIdle
    /\ config \in SnapshotConfigs
    /\ thresholds = ValidatedThresholds(config)
    /\ num_services = config.num_services
    /\ sn_board \in Boards
    /\ sn_now \in NowsTried(config)
    /\ snapshot = NoSnapshot

SpecThresholds == InitThresholds /\ [][ThresholdsNext]_vars

SpecSnapshot == InitSnapshot /\ [][SnapshotNext]_vars

\* a raw response about to be parsed
InitParser ==
    RequestInit /\ CoordIdle /\ TrackerIdle /\ SnapshotIdle /\ ParserInit /\ ValidateIdle
    /\ CallerIdle /\ MirrorIdle

SpecParser == InitParser /\ [][ParserNext]_vars

\* a station code about to be validated
InitValidate ==
    RequestInit /\ CoordIdle /\ TrackerIdle /\ SnapshotIdle /\ ParserIdle /\ ValidateInit
    /\ CallerIdle /\ MirrorIdle

SpecValidate == InitValidate /\ [][ValidateNext]_vars

\* a method of the client about to be called
InitCaller ==
    /\ RequestInit /\ CoordIdle /\ TrackerIdle /\ SnapshotIdle /\ ParserIdle
    /\ ValidateIdle /\ MirrorIdle
    /\ CallerInit

SpecCaller == InitCaller /\ [][CallerNext]_vars

\* the two sensors on the snapshots of one coordinator
InitMirror ==
    /\ RequestInit /\ CoordIdle /\ TrackerIdle /\ SnapshotIdle /\ ParserIdle
    /\ ValidateIdle /\ CallerIdle
    /\ MirrorInit

SpecMirror == InitMirror /\ [][MirrorNext]_vars

====
